---- MODULE Spec2Model ----
(***************************************************************************)
(* Tiered chain-data storage engine of luxfi/geth (ethdb/badgerdb,         *)
(* ethdb/genesis): the BadgerDatabase key-value store and its batch, the   *)
(* DualBadgerDatabase with its Archiver, the BadgerAncientStore and the    *)
(* GenesisReplayer.  Each component has its own variables and its own      *)
(* specification; a specification leaves the other components' variables   *)
(* at their initial values.                                                *)
(*                                                                         *)
(* Keys and values are byte strings, written as sequences of byte codes.   *)
(* The Badger engine itself is not part of the repository; it is modelled  *)
(* by what the calls the repository makes to it do: a transaction          *)
(* (db.Update) applies all of its writes or none, a handle opened with     *)
(* opts.ReadOnly rejects every Set and Delete, and an iterator or a        *)
(* read-only transaction reads the store as it was when it was opened.     *)
(***************************************************************************)
EXTENDS Integers, Sequences, FiniteSets, TLC

(***************************************************************************)
(* Bounds of the model.                                                    *)
(***************************************************************************)
\* Largest number of bytes buffered in one badgerBatch before it is reset.
MaxBatchBytes == 4
\* Largest chain height a caller stores under the height marker.
MaxHeight == 2
\* Largest finalityDelay an Archiver is created with.
MaxDelay == 1
\* Largest totalArchived at which the archiver still flushes a chunk.
MaxTotal == 2
\* Largest uint64: the 64-bit arithmetic of the ancient store, scaled down.
MaxUint64 == 2
\* Largest item number a caller appends to the ancient store.
MaxNumber == 1
\* Largest value of a table's size counter.
MaxSize == 2
\* Largest source tip of a genesis dataset.
MaxTip == 3
\* Largest BatchSize of a ReplayConfig.
MaxBatchSize == 2
\* Largest number of Replay calls on one target.
MaxRuns == 2
\* Largest count argument of an AncientRange call.
MaxCount == 3
\* Largest maxBytes argument of an AncientRange call.
MaxRangeBytes == 3
\* Most calls of Archiver.Start
MaxStarts == 2
\* Most goroutines that call Archiver.Stop
MaxStoppers == 2
\* Most read-only handles open on one ancient store path
MaxHandles == 2

\* Most commits made on the database a snapshot is taken of
MaxCommits == 2
\* Most Release calls on one snapshot
MaxReleases == 2

\* Most operations buffered in one badgerBatch before it is reset
MaxIssued == 2

\* Largest chain head handed to FreezeBlocks
MaxHead == 3
\* Largest FreezerConfig.FreezeThreshold
MaxThreshold == 1
\* Largest FreezerConfig.BatchSize
MaxFreezeBatch == 2
\* Most blocks the ancient store holds when NewFreezer opens it
MaxFrozenBefore == 2

\* Largest block number written to a dualdb.DualDatabase
MaxBlockNumber == 1

(***************************************************************************)
(* Constants of the program.                                               *)
(***************************************************************************)
\* batchSize := 100 in archiveFinalized
batchSize == 100

(***************************************************************************)
(* Byte strings.                                                           *)
(***************************************************************************)
\* A nil byte slice.
Nil == <<>>

\* bytes.Compare(a, b) < 0: Badger iterates keys in this order.
RECURSIVE BytesLess(_, _)
BytesLess(a, b) ==
    IF b = <<>> THEN FALSE
    ELSE IF a = <<>> THEN TRUE
    ELSE IF Head(a) # Head(b) THEN Head(a) < Head(b)
    ELSE BytesLess(Tail(a), Tail(b))

\* The keys of S in ascending byte order.
RECURSIVE SortedKeys(_)
SortedKeys(S) ==
    IF S = {} THEN <<>>
    ELSE LET m == CHOOSE x \in S : \A y \in S \ {x} : BytesLess(x, y)
         IN  <<m>> \o SortedKeys(S \ {m})

\* Keys "a", "b" and values used on a single BadgerDatabase.
KVKeys == {<<97>>, <<98>>}
KVValues == {<<1>>, <<2, 2>>}

(***************************************************************************)
(* A store is a function from the keys it holds to their values.           *)
(***************************************************************************)
EmptyStore == [x \in {} |-> Nil]

AllStores(K, V) == UNION {[D -> V] : D \in SUBSET K}

StoreSet(s, k, v) == [x \in DOMAIN s \cup {k} |-> IF x = k THEN v ELSE s[x]]

StoreDel(s, k) == [x \in DOMAIN s \ {k} |-> s[x]]

\* A buffered write: txn.Set(key, value) or txn.Delete(key).
SetEntry(v) == [value |-> v, delete |-> FALSE]
DelEntry == [value |-> Nil, delete |-> TRUE]

\* The store after every write of ents (a function from keys to entries).
ApplyEntries(s, ents) ==
    [x \in (DOMAIN s \cup {k \in DOMAIN ents : ~ents[k].delete})
          \ {k \in DOMAIN ents : ents[k].delete} |->
        IF x \in DOMAIN ents THEN ents[x].value ELSE s[x]]

(***************************************************************************)
(* badger.DB.Update(fn) where fn issues the writes ents.  done is the set  *)
(* of writes that fn issued before one of them returned an error (all of   *)
(* them when none did) and commitOk tells whether the commit succeeded.    *)
(* On a read-only handle the first Set or Delete returns ErrReadOnlyTxn.   *)
(* The transaction is discarded unless every write and the commit          *)
(* succeeded, so the store changes by all of ents or not at all.           *)
(***************************************************************************)
\* A transaction that leaves the writes issued before the failure in place.
UpdateKeepsPrefix(db, readOnly, ents, done, commitOk) ==
    IF ents = EmptyStore THEN [db |-> db, err |-> "nil"]
    ELSE IF readOnly THEN [db |-> db, err |-> "ErrReadOnlyTxn"]
    ELSE IF done = DOMAIN ents /\ commitOk
         THEN [db |-> ApplyEntries(db, ents), err |-> "nil"]
    ELSE [db |-> ApplyEntries(db, [k \in done |-> ents[k]]), err |-> "ErrTxn"]

BadgerUpdate(db, readOnly, ents, done, commitOk) ==
    IF ents = EmptyStore THEN [db |-> db, err |-> "nil"]
    ELSE IF readOnly THEN [db |-> db, err |-> "ErrReadOnlyTxn"]
    ELSE IF done = DOMAIN ents /\ commitOk
         THEN [db |-> ApplyEntries(db, ents), err |-> "nil"]
    ELSE [db |-> db, err |-> "ErrTxn"]

(***************************************************************************)
(* BadgerDatabase: Has, Get, Put, Delete.                                  *)
(***************************************************************************)
BadgerHas(db, k) == [has |-> k \in DOMAIN db, err |-> "nil"]

BadgerGet(db, k) ==
    IF k \in DOMAIN db THEN [value |-> db[k], err |-> "nil"]
    ELSE [value |-> Nil, err |-> "ErrKeyNotFound"]

BadgerPut(db, readOnly, k, v, commitOk) ==
    BadgerUpdate(db, readOnly, [x \in {k} |-> SetEntry(v)], {k}, commitOk)

\* A Delete that reports success without removing the key.
DeleteKeepsKey(db, readOnly, k, commitOk) ==
    [db |-> db, err |-> IF readOnly THEN "ErrReadOnlyTxn"
                        ELSE IF commitOk THEN "nil" ELSE "ErrTxn"]

BadgerDelete(db, readOnly, k, commitOk) ==
    BadgerUpdate(db, readOnly, [x \in {k} |-> DelEntry], {k}, commitOk)

\* The end of a DeleteRange: nil, or a byte slice.
NoEnd == [isNil |-> TRUE]
EndAt(bytes) == [isNil |-> FALSE, bytes |-> bytes]

\* BadgerDatabase.DeleteRange: one Update that collects the keys from
\* Seek(start) up to the first key that is not below end, then deletes them.
BadgerDeleteRange(db, readOnly, start, end, done, commitOk) ==
    LET keysToDelete == {k \in DOMAIN db :
                            /\ ~BytesLess(k, start)
                            /\ end.isNil \/ BytesLess(k, end.bytes)}
    IN BadgerUpdate(db, readOnly, [k \in keysToDelete |-> DelEntry],
                    done \cap keysToDelete, commitOk)

(***************************************************************************)
(* State of one read-write BadgerDatabase with one badgerBatch.            *)
(*   kvStore    the committed contents of the database                     *)
(*   kvEntries  badgerBatch.entries                                        *)
(*   kvSize     badgerBatch.size                                           *)
(*   kvAct      the call made last, kvErr the error it returned            *)
(*   kvLast     per key, the last Put or Delete that returned no error     *)
(*              (directly or through a written batch): history variable    *)
(***************************************************************************)
VARIABLES kvStore, kvEntries, kvSize, kvAct, kvErr, kvLast

kvVars == <<kvStore, kvEntries, kvSize, kvAct, kvErr, kvLast>>

(***************************************************************************)
(* State of one DualBadgerDatabase and its Archiver.                       *)
(*   current, archive   contents of currentDB and archiveDB                *)
(*   hasArchive         DualBadgerDatabase.hasArchive (archiveDB # nil)    *)
(*   finalityHeight     DualBadgerDatabase.finalityHeight                  *)
(*   finalityDelay      Archiver.finalityDelay                             *)
(*   totalArchived, totalDeleted, lastArchived   the Archiver's metrics    *)
(*       (lastArchived: whether a time stamp has been stored)              *)
(*   arPc               where archiveFinalized stands: "idle" (not         *)
(*                      running), "iter" (before the iterator's first      *)
(*                      Next), "flush" (before an archiveBatch.Write)      *)
(*   arFinalized        its local finalizedHeight                          *)
(*   arRest             keys the iterator has still to yield, arSnap the   *)
(*                      contents the iterator's transaction reads          *)
(*   arBatch            archiveBatch.entries; keysToDelete is its domain   *)
(*   arArchived, arDeleted   the locals archived and deleted               *)
(*   arErr              what the last archiveFinalized returned            *)
(*   rdRes              the result of the last Get/Has through the         *)
(*                      DualBadgerDatabase                                 *)
(* History variables:                                                      *)
(*   arStartKeys        keys held by current when the running (or last)    *)
(*                      cycle began, callerDeleted those a caller deleted  *)
(*                      since                                              *)
(*   dualLast           per key, the last Put or Delete a caller completed *)
(***************************************************************************)
VARIABLES current, archive, hasArchive, finalityHeight, finalityDelay,
          totalArchived, totalDeleted, lastArchived,
          arPc, arFinalized, arRest, arSnap, arBatch, arArchived, arDeleted,
          arErr, rdRes, arStartKeys, callerDeleted, dualLast

dualVars == <<current, archive, hasArchive, finalityHeight, finalityDelay,
              totalArchived, totalDeleted, lastArchived,
              arPc, arFinalized, arRest, arSnap, arBatch, arArchived,
              arDeleted, arErr, rdRes, arStartKeys, callerDeleted, dualLast>>

(***************************************************************************)
(* State of one BadgerAncientStore.                                        *)
(*   storedItems   the items in its Badger database, by <<kind, number>>    *)
(*   storedCount   the value under "ancient-count" (0 when never written)   *)
(*   storedTail    the value under "ancient-tail" (0 when never written)    *)
(*   ancients      s.ancients, what Ancients() returns                      *)
(*   tail          s.tail, what Tail() returns                              *)
(*   tableSize     s.tables[kind].size, what AncientSize(kind) returns      *)
(*   ancAct, ancErr  the last call made and the error it returned           *)
(***************************************************************************)
VARIABLES storedItems, storedCount, storedTail, ancients, tail, tableSize,
          ancAct, ancErr

ancVars == <<storedItems, storedCount, storedTail, ancients, tail, tableSize, ancAct, ancErr>>

\* rangeRes: the arguments and the result of the last AncientRange call.
VARIABLES rangeRes

rangeVars == <<rangeRes>>

(***************************************************************************)
(* State of one GenesisReplayer, its source and its target.                *)
(*   sourceTip      the height under "LastBlock" in the source              *)
(*   sourceHashes   the heights that have a canonical hash in the source    *)
(*   rpBatchSize, verifyBlocks, continueOnError   the ReplayConfig          *)
(*   target         the target BadgerDatabase                               *)
(*   rpPc           where Replay is: "idle" before the first call,          *)
(*                  "batches" in the batch loop, "verify" before the final  *)
(*                  verifyTips, "returned", "panicked", "interrupted"       *)
(*   rpHeight       the loop variable height of Replay                      *)
(*   rpErr          the error of the Replay call that returned last         *)
(*   lastReplayed   gr.lastReplayed                                         *)
(*   rpRuns         the number of Replay calls made                         *)
(***************************************************************************)
VARIABLES sourceTip, sourceHashes, rpBatchSize, verifyBlocks, continueOnError,
          target, rpPc, rpHeight, rpErr, lastReplayed, rpRuns

rpVars == <<sourceTip, sourceHashes, rpBatchSize, verifyBlocks, continueOnError, target, rpPc, rpHeight, rpErr, lastReplayed, rpRuns>>

(***************************************************************************)
(* The goroutines around an Archiver.                                      *)
(*   stopCh    a.stopCh: "open" or "closed"                                *)
(*   wg        the counter of a.wg                                         *)
(*   loopPc    per Start call, where the archiveLoop goroutine it created   *)
(*             is: "none" (not created), "start" (before its first         *)
(*             archiveFinalized), "scan" (in archiveFinalized, no chunk    *)
(*             half done), "written" (a chunk written to archive, its      *)
(*             deletes not yet attempted), "wait" (in the select),         *)
(*             "exited"                                                    *)
(*   loopErr   per loop, what its last archiveFinalized returned           *)
(*   stopPc    per goroutine calling Stop, where it is: "idle", "select"   *)
(*             (called, before the select), "default" (took the default    *)
(*             branch), "waiting" (in wg.Wait), "returned", "panicked"     *)
(***************************************************************************)
VARIABLES stopCh, wg, loopPc, loopErr, stopPc

lifeVars == <<stopCh, wg, loopPc, loopErr, stopPc>>

(***************************************************************************)
(* Read-only handles on the path of an ancient store                       *)
(* (NewSharedBadgerAncientStore).                                          *)
(*   roOpen      per handle, whether it is open                            *)
(*   roAncients  per handle, its s.ancients                                *)
(*   roTail      per handle, its s.tail                                    *)
(*   roErr       what the last call through a handle returned              *)
(***************************************************************************)
VARIABLES roOpen, roAncients, roTail, roErr

roVars == <<roOpen, roAncients, roTail, roErr>>

VARIABLES snVersions, snTxn, snAtCreate, snRes, snReleases

snVars == <<snVersions, snTxn, snAtCreate, snRes, snReleases>>

VARIABLES itRes

itVars == <<itRes>>

VARIABLES clKind, clClosed, clCurrent, clArchive, clRes

clVars == <<clKind, clClosed, clCurrent, clArchive, clRes>>

VARIABLES gtRes

gtVars == <<gtRes>>

VARIABLES obStore, obEntries, obIssued, obRes

obVars == <<obStore, obEntries, obIssued, obRes>>

VARIABLES frItems, frAncients, frLastFrozen, frConfig, frRes

frVars == <<frItems, frAncients, frLastFrozen, frConfig, frRes>>

VARIABLES ddCurrent, ddArchive, ddCanonical, ddHead, ddFinalized, ddDelay, ddRes

ddVars == <<ddCurrent, ddArchive, ddCanonical, ddHead, ddFinalized, ddDelay, ddRes>>

vars == <<kvVars, dualVars, ancVars, rangeVars, rpVars, lifeVars, roVars, snVars, itVars, clVars, gtVars, obVars, frVars, ddVars>>

\* What the operations of one component leave alone.
otherThanKV == <<dualVars, ancVars, rangeVars, rpVars, lifeVars, roVars, snVars, itVars, clVars, gtVars, obVars, frVars, ddVars>>
otherThanDual == <<kvVars, ancVars, rangeVars, rpVars, lifeVars, roVars, snVars, itVars, clVars, gtVars, obVars, frVars, ddVars>>
otherThanAncient == <<kvVars, dualVars, rangeVars, rpVars, lifeVars, roVars, snVars, itVars, clVars, gtVars, obVars, frVars, ddVars>>
otherThanReplay == <<kvVars, dualVars, ancVars, rangeVars, lifeVars, roVars, snVars, itVars, clVars, gtVars, obVars, frVars, ddVars>>
otherThanRange == <<kvVars, dualVars, ancVars, rpVars, lifeVars, roVars, snVars, itVars, clVars, gtVars, obVars, frVars, ddVars>>
otherThanLife == <<kvVars, dualVars, ancVars, rangeVars, rpVars, roVars, snVars, itVars, clVars, gtVars, obVars, frVars, ddVars>>
otherThanShared == <<kvVars, dualVars, rangeVars, rpVars, lifeVars, snVars, itVars, clVars, gtVars, obVars, frVars, ddVars>>
otherThanSnap == <<kvVars, dualVars, ancVars, rangeVars, rpVars, lifeVars, roVars, itVars, clVars, gtVars, obVars, frVars, ddVars>>
otherThanIter == <<kvVars, dualVars, ancVars, rangeVars, rpVars, lifeVars, roVars, snVars, clVars, gtVars, obVars, frVars, ddVars>>
otherThanClose == <<kvVars, dualVars, ancVars, rangeVars, rpVars, lifeVars, roVars, snVars, itVars, gtVars, obVars, frVars, ddVars>>
otherThanGet == <<kvVars, dualVars, ancVars, rangeVars, rpVars, lifeVars, roVars, snVars, itVars, clVars, obVars, frVars, ddVars>>
otherThanOrder == <<kvVars, dualVars, ancVars, rangeVars, rpVars, lifeVars, roVars, snVars, itVars, clVars, gtVars, frVars, ddVars>>
otherThanFreezer == <<kvVars, dualVars, ancVars, rangeVars, rpVars, lifeVars, roVars, snVars, itVars, clVars, gtVars, obVars, ddVars>>
otherThanDualdb == <<kvVars, dualVars, ancVars, rangeVars, rpVars, lifeVars, roVars, snVars, itVars, clVars, gtVars, obVars, frVars>>

NeverWritten == <<"none">>

\* A read-only transaction that was never made or was discarded.
NoTxn == [live |-> FALSE]

NoCall == [op |-> "none"]

\* No database opened for a snapshot, no snapshot taken.
NoSnapshot ==
    /\ snVersions = <<>>
    /\ snTxn = NoTxn
    /\ snAtCreate = EmptyStore
    /\ snRes = NoCall
    /\ snReleases = 0

\* No iterator was made.
NoIteration == itRes = NoCall

\* No handle opened for the calls around Close.
NoHandle ==
    /\ clKind = "none"
    /\ clClosed = FALSE
    /\ clCurrent = EmptyStore
    /\ clArchive = EmptyStore
    /\ clRes = NoCall

\* No Get was made.
NoGet == gtRes = NoCall

\* No database opened for a batch with range deletes.
NoBatch ==
    /\ obStore = EmptyStore
    /\ obEntries = EmptyStore
    /\ obIssued = <<>>
    /\ obRes = NoCall

\* NewFreezer has not been called.
NoFreezer ==
    /\ frItems = {}
    /\ frAncients = 0
    /\ frLastFrozen = 0
    /\ frConfig = [FreezeThreshold |-> 0, BatchSize |-> 1]
    /\ frRes = NoCall

\* NewDualDatabase has not been called.
NoDualDatabase ==
    /\ ddCurrent = {}
    /\ ddArchive = {}
    /\ ddCanonical = <<>>
    /\ ddHead = <<>>
    /\ ddFinalized = 0
    /\ ddDelay = 0
    /\ ddRes = NoCall

\* NewBadgerDatabase(path, false, false) on a fresh path; NewBatch().
KVOpen ==
    /\ kvStore = EmptyStore
    /\ kvEntries = EmptyStore
    /\ kvSize = 0
    /\ kvAct = "open"
    /\ kvErr = "nil"
    /\ kvLast = [k \in KVKeys |-> NeverWritten]
    /\ NoSnapshot
    /\ NoIteration
    /\ NoHandle
    /\ NoGet
    /\ NoBatch
    /\ NoFreezer
    /\ NoDualDatabase

\* The history after the writes ents took effect.
LastAfter(last, ents) ==
    [k \in KVKeys |->
        IF k \in DOMAIN ents
        THEN IF ents[k].delete THEN <<"del">> ELSE <<"put", ents[k].value>>
        ELSE last[k]]

KVPut(k, v, commitOk) ==
    LET r == BadgerPut(kvStore, FALSE, k, v, commitOk) IN
    /\ kvStore' = r.db
    /\ kvErr' = r.err
    /\ kvAct' = "Put"
    /\ kvLast' = IF r.err = "nil"
                 THEN LastAfter(kvLast, [x \in {k} |-> SetEntry(v)])
                 ELSE kvLast
    /\ UNCHANGED <<kvEntries, kvSize>>
    /\ UNCHANGED otherThanKV

KVDelete(k, commitOk) ==
    LET r == BadgerDelete(kvStore, FALSE, k, commitOk) IN
    /\ kvStore' = r.db
    /\ kvErr' = r.err
    /\ kvAct' = "Delete"
    /\ kvLast' = IF r.err = "nil"
                 THEN LastAfter(kvLast, [x \in {k} |-> DelEntry])
                 ELSE kvLast
    /\ UNCHANGED <<kvEntries, kvSize>>
    /\ UNCHANGED otherThanKV

\* badgerBatch.Put
BatchPut(k, v) ==
    /\ kvSize + Len(k) + Len(v) <= MaxBatchBytes
    /\ kvEntries' = StoreSet(kvEntries, k, SetEntry(v))
    /\ kvSize' = kvSize + Len(k) + Len(v)
    /\ kvAct' = "BatchPut"
    /\ kvErr' = "nil"
    /\ UNCHANGED <<kvStore, kvLast>>
    /\ UNCHANGED otherThanKV

\* badgerBatch.Delete
BatchDelete(k) ==
    /\ kvSize + Len(k) <= MaxBatchBytes
    /\ kvEntries' = StoreSet(kvEntries, k, DelEntry)
    /\ kvSize' = kvSize + Len(k)
    /\ kvAct' = "BatchDelete"
    /\ kvErr' = "nil"
    /\ UNCHANGED <<kvStore, kvLast>>
    /\ UNCHANGED otherThanKV

\* badgerBatch.Write: one transaction over all entries; the batch is kept.
BatchWrite(done, commitOk) ==
    LET r == BadgerUpdate(kvStore, FALSE, kvEntries, done, commitOk) IN
    /\ kvStore' = r.db
    /\ kvErr' = r.err
    /\ kvAct' = "Write"
    /\ kvLast' = IF r.err = "nil" THEN LastAfter(kvLast, kvEntries) ELSE kvLast
    /\ UNCHANGED <<kvEntries, kvSize>>
    /\ UNCHANGED otherThanKV

\* badgerBatch.Reset
BatchReset ==
    /\ kvEntries' = EmptyStore
    /\ kvSize' = 0
    /\ kvAct' = "Reset"
    /\ kvErr' = "nil"
    /\ UNCHANGED <<kvStore, kvLast>>
    /\ UNCHANGED otherThanKV

KVNext ==
    \/ \E k \in KVKeys, v \in KVValues, ok \in BOOLEAN : KVPut(k, v, ok)
    \/ \E k \in KVKeys, ok \in BOOLEAN : KVDelete(k, ok)
    \/ \E k \in KVKeys, v \in KVValues : BatchPut(k, v)
    \/ \E k \in KVKeys : BatchDelete(k)
    \/ \E done \in SUBSET DOMAIN kvEntries, ok \in BOOLEAN : BatchWrite(done, ok)
    \/ BatchReset

(***************************************************************************)
(* DualBadgerDatabase and Archiver.                                        *)
(***************************************************************************)
\* heightKey := []byte("LastBlock")
HeightKey == <<76, 97, 115, 116, 66, 108, 111, 99, 107>>

\* n >> (8 * times)
RECURSIVE ShiftRight8(_, _)
ShiftRight8(n, times) ==
    IF times = 0 THEN n ELSE ShiftRight8(n \div 256, times - 1)

\* encodeBlockNumber: 8 bytes, big-endian.
EncodeBlockNumber(n) == [i \in 1..8 |-> ShiftRight8(n, 8 - i) % 256]

\* height = (height << 8) | data[i], over all bytes of data.
RECURSIVE DecodeFrom(_, _)
DecodeFrom(height, data) ==
    IF data = <<>> THEN height
    ELSE DecodeFrom(height * 256 + Head(data), Tail(data))

\* Keys "LastBlock" and "a" of the dual database.  Callers put an encoded
\* height or a value that is no encoded height under "LastBlock", and one of
\* two values under "a".
DualKeys == {HeightKey, <<97>>}
DualValues(k) ==
    IF k = HeightKey THEN {EncodeBlockNumber(1), EncodeBlockNumber(MaxHeight), <<1>>}
    ELSE {<<1>>, <<2>>}
\* An archive that was populated before it is opened.
OldArchive == (HeightKey :> EncodeBlockNumber(MaxHeight)) @@ (<<97>> :> <<3>>)

\* NewDualBadgerDatabase opens the archive with readOnly = true.
ArchiveOpenedReadWrite == FALSE
ArchiveReadOnly == TRUE

\* DualBadgerDatabase.Has
DualHas(cur, arch, withArchive, k) ==
    LET c == BadgerHas(cur, k) IN
    IF c.err # "nil" \/ c.has THEN c
    ELSE IF withArchive THEN BadgerHas(arch, k)
    ELSE [has |-> FALSE, err |-> "nil"]

\* A Get that asks the archive first.
GetArchiveFirst(cur, arch, withArchive, k) ==
    IF withArchive /\ BadgerGet(arch, k).err = "nil" THEN BadgerGet(arch, k)
    ELSE BadgerGet(cur, k)

\* DualBadgerDatabase.Get
DualGet(cur, arch, withArchive, k) ==
    LET c == BadgerGet(cur, k) IN
    IF c.err = "nil" THEN c
    ELSE IF c.err # "ErrKeyNotFound" THEN c
    ELSE IF withArchive THEN BadgerGet(arch, k)
    ELSE [value |-> Nil, err |-> "ErrKeyNotFound"]

\* Archiver.getCurrentHeight
GetCurrentHeight(cur, arch, withArchive) ==
    LET r == DualGet(cur, arch, withArchive, HeightKey) IN
    IF r.err # "nil" THEN [height |-> 0, err |-> "nil"]
    ELSE IF Len(r.value) # 8 THEN [height |-> 0, err |-> "invalid height data"]
    ELSE [height |-> DecodeFrom(0, r.value), err |-> "nil"]

\* shouldArchive
ShouldArchive(key, finalizedHeight) == TRUE

\* badgerBatch.ValueSize of a batch that holds the Puts ents.
RECURSIVE EntriesSize(_)
EntriesSize(ents) ==
    IF DOMAIN ents = {} THEN 0
    ELSE LET k == CHOOSE x \in DOMAIN ents : TRUE IN
         Len(k) + Len(ents[k].value)
           + EntriesSize([x \in DOMAIN ents \ {k} |-> ents[x]])

\* The loop over the iterator, from the key it yields next up to the next
\* archiveBatch.Write: the one inside the loop, once archived is a multiple
\* of batchSize, or the final one after the last key.
RECURSIVE ScanLoop(_, _, _, _, _)
ScanLoop(snap, rest, batch, archived, finalizedHeight) ==
    IF rest = <<>> THEN [rest |-> rest, batch |-> batch, archived |-> archived]
    ELSE LET key == Head(rest) IN
         IF ShouldArchive(key, finalizedHeight)
         THEN LET b == StoreSet(batch, key, SetEntry(snap[key])) IN
              IF (archived + 1) % batchSize = 0
              THEN [rest |-> Tail(rest), batch |-> b, archived |-> archived + 1]
              ELSE ScanLoop(snap, Tail(rest), b, archived + 1, finalizedHeight)
         ELSE ScanLoop(snap, Tail(rest), batch, archived, finalizedHeight)

\* currentDB.Delete(k) for every k of keys, each its own transaction.
DeleteKeys(cur, keys) == [x \in DOMAIN cur \ keys |-> cur[x]]

\* A chunk whose keys are deleted from current before the archive write.
FlushDeletesFirst(cur, arch, readOnly, batch, done, commitOk, failed) ==
    LET w == BadgerUpdate(arch, readOnly, batch, done, commitOk)
        c == DeleteKeys(cur, DOMAIN batch \ failed) IN
    [err |-> w.err, archive |-> w.db, current |-> c,
     deleted |-> IF w.err = "nil" THEN Cardinality(DOMAIN batch \ failed) ELSE 0]

\* A chunk that is written to an archive opened for writing and whose keys
\* are left in current.
FlushKeepsCurrent(cur, arch, readOnly, batch, done, commitOk, failed) ==
    LET w == BadgerUpdate(arch, FALSE, batch, done, commitOk) IN
    IF w.err # "nil"
    THEN [err |-> w.err, archive |-> arch, current |-> cur, deleted |-> 0]
    ELSE [err |-> "nil", archive |-> w.db, current |-> cur, deleted |-> 0]

\* One chunk of archiveFinalized: archiveBatch.Write(), and only when it
\* returned no error the Delete of every key of the chunk from current
\* (failed: the keys whose Delete returned an error, which is logged).
FlushChunk(cur, arch, readOnly, batch, done, commitOk, failed) ==
    LET w == BadgerUpdate(arch, readOnly, batch, done, commitOk) IN
    IF w.err # "nil"
    THEN [err |-> w.err, archive |-> arch, current |-> cur, deleted |-> 0]
    ELSE [err |-> "nil", archive |-> w.db,
          current |-> DeleteKeys(cur, DOMAIN batch \ failed),
          deleted |-> Cardinality(DOMAIN batch \ failed)]

NoRead == [op |-> "none"]

\* The archiver's locals when archiveFinalized is not running.
ArchiverIdle ==
    /\ arPc = "idle"
    /\ arFinalized = 0
    /\ arRest = <<>>
    /\ arSnap = EmptyStore
    /\ arBatch = EmptyStore
    /\ arArchived = 0
    /\ arDeleted = 0

Loops == 1..MaxStarts
Stoppers == 1..MaxStoppers

\* NewArchiver: stopCh made and open, no goroutine started, nobody in Stop.
ArchiverNew ==
    /\ stopCh = "open"
    /\ wg = 0
    /\ loopPc = [l \in Loops |-> "none"]
    /\ loopErr = [l \in Loops |-> "none"]
    /\ stopPc = [c \in Stoppers |-> "idle"]

\* A dual database that is never opened (the other specifications).
DualClosed ==
    /\ current = EmptyStore /\ archive = EmptyStore /\ hasArchive = FALSE
    /\ finalityHeight = 0 /\ finalityDelay = 0
    /\ totalArchived = 0 /\ totalDeleted = 0 /\ lastArchived = FALSE
    /\ ArchiverIdle
    /\ ArchiverNew
    /\ arErr = "nil" /\ rdRes = NoRead
    /\ arStartKeys = {} /\ callerDeleted = {}
    /\ dualLast = [k \in DualKeys |-> NeverWritten]

\* NewDualBadgerDatabase on a fresh current path, with or without an
\* archive that was populated before; NewArchiver.
DualOpen ==
    /\ current = EmptyStore
    /\ hasArchive \in BOOLEAN
    /\ archive \in IF hasArchive THEN {EmptyStore, OldArchive} ELSE {EmptyStore}
    /\ finalityHeight = 0
    /\ finalityDelay \in 0..MaxDelay
    /\ totalArchived = 0 /\ totalDeleted = 0 /\ lastArchived = FALSE
    /\ ArchiverIdle
    /\ ArchiverNew
    /\ arErr = "nil" /\ rdRes = NoRead
    /\ arStartKeys = {} /\ callerDeleted = {}
    /\ dualLast = [k \in DualKeys |-> NeverWritten]

archiverLocals == <<arFinalized, arRest, arSnap, arBatch, arArchived, arDeleted>>
archiverMetrics == <<totalArchived, totalDeleted, lastArchived, finalityHeight>>
dualConfig == <<hasArchive, finalityDelay>>

\* DualBadgerDatabase.Put by a caller.
DualPut(k, v, commitOk) ==
    LET r == BadgerPut(current, FALSE, k, v, commitOk) IN
    /\ current' = r.db
    /\ dualLast' = IF r.err = "nil" THEN [dualLast EXCEPT ![k] = <<"put", v>>]
                   ELSE dualLast
    /\ UNCHANGED <<archive, dualConfig, archiverMetrics, arPc, archiverLocals,
                   arErr, rdRes, arStartKeys, callerDeleted>>
    /\ UNCHANGED otherThanDual

\* A Delete that removes the key from both tiers.
DeleteFromBothTiers(k, commitOk) ==
    /\ current' = StoreDel(current, k)
    /\ archive' = StoreDel(archive, k)
    /\ dualLast' = [dualLast EXCEPT ![k] = <<"del">>]
    /\ UNCHANGED <<dualConfig, archiverMetrics, arPc, archiverLocals,
                   arErr, rdRes, arStartKeys, callerDeleted>>
    /\ UNCHANGED otherThanDual

\* DualBadgerDatabase.Delete by a caller.
DualDelete(k, commitOk) ==
    LET r == BadgerDelete(current, FALSE, k, commitOk) IN
    /\ current' = r.db
    /\ dualLast' = IF r.err = "nil" THEN [dualLast EXCEPT ![k] = <<"del">>]
                   ELSE dualLast
    /\ callerDeleted' = IF r.err = "nil" /\ arPc # "idle"
                        THEN callerDeleted \cup {k} ELSE callerDeleted
    /\ UNCHANGED <<archive, dualConfig, archiverMetrics, arPc, archiverLocals,
                   arErr, rdRes, arStartKeys>>
    /\ UNCHANGED otherThanDual

\* DualBadgerDatabase.DeleteRange by a caller.
DualDeleteRange(start, end, done, commitOk) ==
    LET r == BadgerDeleteRange(current, FALSE, start, end, done, commitOk) IN
    /\ current' = r.db
    /\ dualLast' = [k \in DualKeys |->
                       IF r.err = "nil" /\ k \in DOMAIN current \ DOMAIN r.db
                       THEN <<"range">> ELSE dualLast[k]]
    /\ UNCHANGED <<archive, dualConfig, archiverMetrics, arPc, archiverLocals,
                   arErr, rdRes, arStartKeys, callerDeleted>>
    /\ UNCHANGED otherThanDual

\* The Puts and Deletes a caller can buffer in a batch of the dual database.
DualBatches ==
    UNION {[D -> {DelEntry} \cup {SetEntry(v) : v \in {<<1>>, <<2>>}}] :
              D \in SUBSET DualKeys}

\* Write of a batch from DualBadgerDatabase.NewBatch that holds ents: the
\* batch is a badgerBatch of currentDB.
DualBatchWrite(ents, done, commitOk) ==
    LET r == BadgerUpdate(current, FALSE, ents, done, commitOk) IN
    /\ current' = r.db
    /\ dualLast' = [k \in DualKeys |->
                       IF r.err = "nil" /\ k \in DOMAIN ents
                       THEN IF ents[k].delete THEN <<"batchdel">>
                            ELSE <<"put", ents[k].value>>
                       ELSE dualLast[k]]
    /\ UNCHANGED <<archive, dualConfig, archiverMetrics, arPc, archiverLocals,
                   arErr, rdRes, arStartKeys, callerDeleted>>
    /\ UNCHANGED otherThanDual

\* archiveFinalized up to the creation of the batch and the iterator.
ArchiverBegin ==
    LET h == GetCurrentHeight(current, archive, hasArchive)
        stay(err) ==
            /\ arErr' = err
            /\ UNCHANGED <<arPc, archiverLocals, arStartKeys, callerDeleted>>
    IN
    /\ arPc = "idle"
    /\ IF ~hasArchive THEN stay("nil")
       ELSE IF h.err # "nil" THEN stay("failed to get current height")
       ELSE IF h.height = 0 \/ h.height <= finalityDelay THEN stay("nil")
       ELSE /\ arPc' = "iter"
            /\ arFinalized' = h.height - finalityDelay
            /\ arBatch' = EmptyStore
            /\ arArchived' = 0
            /\ arDeleted' = 0
            /\ arStartKeys' = DOMAIN current
            /\ callerDeleted' = {}
            /\ UNCHANGED <<arRest, arSnap, arErr>>
    /\ UNCHANGED <<current, archive, dualConfig, archiverMetrics, rdRes, dualLast>>
    /\ UNCHANGED otherThanDual

\* The iterator loop up to the next archiveBatch.Write.  The iterator's
\* transaction is opened by its first Next and reads current as it is then.
ArchiverScan ==
    /\ arPc \in {"iter", "loop"}
    /\ LET snap == IF arPc = "iter" THEN current ELSE arSnap
           rest == IF arPc = "iter" THEN SortedKeys(DOMAIN current) ELSE arRest
           r == ScanLoop(snap, rest, arBatch, arArchived, arFinalized)
       IN /\ arSnap' = snap
          /\ arRest' = r.rest
          /\ arBatch' = r.batch
          /\ arArchived' = r.archived
    /\ arPc' = "flush"
    /\ UNCHANGED <<current, archive, dualConfig, archiverMetrics, arFinalized,
                   arDeleted, arErr, rdRes, arStartKeys, callerDeleted, dualLast>>
    /\ UNCHANGED otherThanDual

\* An archiveBatch.Write with the deletes that follow it and, after the
\* final one, the update of the metrics and of finalityHeight.
ArchiverFlush(done, commitOk, failed) ==
    LET inLoop == arBatch # EmptyStore /\ arArchived % batchSize = 0
        r == IF ~inLoop /\ EntriesSize(arBatch) = 0
             THEN [err |-> "nil", archive |-> archive, current |-> current,
                   deleted |-> 0]
             ELSE FlushChunk(current, archive, ArchiveReadOnly, arBatch, done,
                             commitOk, failed)
    IN
    /\ arPc = "flush"
    /\ totalArchived <= MaxTotal
    /\ archive' = r.archive
    /\ current' = r.current
    /\ IF r.err # "nil"
       THEN /\ arErr' = IF inLoop THEN "failed to write archive batch"
                       ELSE "failed to write final archive batch"
            /\ arPc' = "idle"
            /\ arFinalized' = 0 /\ arRest' = <<>> /\ arSnap' = EmptyStore
            /\ arBatch' = EmptyStore /\ arArchived' = 0 /\ arDeleted' = 0
            /\ UNCHANGED archiverMetrics
       ELSE IF inLoop
       THEN /\ arPc' = "loop"
            /\ arBatch' = EmptyStore
            /\ arDeleted' = arDeleted + r.deleted
            /\ UNCHANGED <<arFinalized, arRest, arSnap, arArchived, arErr,
                           archiverMetrics>>
       ELSE /\ totalArchived' = totalArchived + arArchived
            /\ totalDeleted' = totalDeleted + arDeleted + r.deleted
            /\ lastArchived' = TRUE
            /\ finalityHeight' = arFinalized
            /\ arErr' = "nil"
            /\ arPc' = "idle"
            /\ arFinalized' = 0 /\ arRest' = <<>> /\ arSnap' = EmptyStore
            /\ arBatch' = EmptyStore /\ arArchived' = 0 /\ arDeleted' = 0
    /\ arStartKeys' = IF arPc' = "idle" THEN {} ELSE arStartKeys
    /\ callerDeleted' = IF arPc' = "idle" THEN {} ELSE callerDeleted
    /\ UNCHANGED <<dualConfig, rdRes, dualLast>>
    /\ UNCHANGED otherThanDual

\* The process dies while archiveFinalized runs; both stores keep what was
\* committed and the archiver starts again from nothing.
ArchiverCrash ==
    /\ arPc # "idle"
    /\ arPc' = "idle"
    /\ arErr' = "crashed"
    /\ arFinalized' = 0 /\ arRest' = <<>> /\ arSnap' = EmptyStore
    /\ arBatch' = EmptyStore /\ arArchived' = 0 /\ arDeleted' = 0
    /\ arStartKeys' = {} /\ callerDeleted' = {}
    /\ UNCHANGED <<current, archive, dualConfig, archiverMetrics, rdRes, dualLast>>
    /\ UNCHANGED otherThanDual

DualNext ==
    \/ \E k \in DualKeys, ok \in BOOLEAN : \E v \in DualValues(k) : DualPut(k, v, ok)
    \/ \E k \in DualKeys, ok \in BOOLEAN : DualDelete(k, ok)
    \/ ArchiverBegin
    \/ ArchiverScan
    \/ \E done, failed \in SUBSET DOMAIN arBatch, ok \in BOOLEAN : ArchiverFlush(done, ok, failed)
    \/ ArchiverCrash

\* The keys "block-0", "block-1", ... and the values "data-0", "data-1", ...
\* that a caller puts for the heights, as the archiver's tests do.
BlockKey(h) == <<98, 108, 111, 99, 107, 45, 48 + h>>
BlockData(h) == <<100, 97, 116, 97, 45, 48 + h>>

\* No archiveFinalized call has returned yet.
NotCalled == "not called"

\* A dual database whose current store was filled by Puts of per-height
\* keys and of the height marker before the archiver runs, and on which
\* nothing but archiveFinalized is called afterwards.
QuietOpen ==
    /\ \E heights \in SUBSET (0..MaxHeight), marker \in SUBSET (0..MaxHeight) :
          /\ Cardinality(marker) <= 1
          /\ current = [k \in {BlockKey(h) : h \in heights}
                                \cup {HeightKey : h \in marker} |->
                           IF k = HeightKey
                           THEN EncodeBlockNumber(CHOOSE h \in marker : TRUE)
                           ELSE BlockData(CHOOSE h \in heights : BlockKey(h) = k)]
    /\ hasArchive \in BOOLEAN
    /\ archive \in IF hasArchive THEN {EmptyStore, OldArchive} ELSE {EmptyStore}
    /\ finalityHeight = 0
    /\ finalityDelay \in 0..MaxDelay
    /\ totalArchived = 0 /\ totalDeleted = 0 /\ lastArchived = FALSE
    /\ ArchiverIdle
    /\ ArchiverNew
    /\ arErr = NotCalled /\ rdRes = NoRead
    /\ arStartKeys = {} /\ callerDeleted = {}
    /\ dualLast = [k \in DualKeys |-> NeverWritten]

\* archiveFinalized called again and again, with no other call between.
QuietNext ==
    \/ ArchiverBegin
    \/ ArchiverScan
    \/ \E done, failed \in SUBSET DOMAIN arBatch, ok \in BOOLEAN : ArchiverFlush(done, ok, failed)

\* Values held by the two tiers of a dual database that is only read.
TierValues == {<<1>>, <<3>>}

\* A dual database opened over a current store and, if configured, an
\* archive, both populated before.
TierOpen ==
    /\ current \in AllStores(DualKeys, TierValues)
    /\ hasArchive \in BOOLEAN
    /\ archive \in IF hasArchive THEN AllStores(DualKeys, TierValues) ELSE {EmptyStore}
    /\ finalityHeight = 0 /\ finalityDelay = 0
    /\ totalArchived = 0 /\ totalDeleted = 0 /\ lastArchived = FALSE
    /\ ArchiverIdle
    /\ ArchiverNew
    /\ arErr = "nil" /\ rdRes = NoRead
    /\ arStartKeys = {} /\ callerDeleted = {}
    /\ dualLast = [k \in DualKeys |-> NeverWritten]

dualButRead == <<current, archive, dualConfig, archiverMetrics, arPc, archiverLocals, arErr, arStartKeys, callerDeleted, dualLast>>

\* A caller's DualBadgerDatabase.Get(k).
DualReadGet(k) ==
    LET r == DualGet(current, archive, hasArchive, k) IN
    /\ rdRes' = [op |-> "Get", key |-> k, value |-> r.value, err |-> r.err]
    /\ UNCHANGED dualButRead
    /\ UNCHANGED otherThanDual

\* A caller's DualBadgerDatabase.Has(k).
DualReadHas(k) ==
    LET r == DualHas(current, archive, hasArchive, k) IN
    /\ rdRes' = [op |-> "Has", key |-> k, has |-> r.has, err |-> r.err]
    /\ UNCHANGED dualButRead
    /\ UNCHANGED otherThanDual

TierNext ==
    \/ \E k \in DualKeys : DualReadGet(k)
    \/ \E k \in DualKeys : DualReadHas(k)

\* The starts and ends of the DeleteRange calls: nil, "M" and "a", "b".
RangeStarts == {Nil, <<77>>, <<97>>}
RangeEnds == {NoEnd, EndAt(<<97>>), EndAt(<<98>>)}

\* The writes of callers on a dual database whose tiers were populated
\* before.
TierWriteNext ==
    \/ \E k \in DualKeys, ok \in BOOLEAN : \E v \in DualValues(k) : DualPut(k, v, ok)
    \/ \E k \in DualKeys, ok \in BOOLEAN : DualDelete(k, ok)
    \/ \E start \in RangeStarts, end \in RangeEnds, done \in SUBSET DualKeys, ok \in BOOLEAN :
          DualDeleteRange(start, end, done, ok)
    \/ \E ents \in DualBatches, ok \in BOOLEAN : \E done \in SUBSET DOMAIN ents :
          DualBatchWrite(ents, done, ok)

(***************************************************************************)
(* Archiver.Start, Archiver.Stop and archiveLoop.                          *)
(***************************************************************************)
\* The process is alive: no goroutine has panicked.
Running == \A c \in Stoppers : stopPc[c] # "panicked"

\* The loops that exist: goroutines created and not yet returned.
LiveLoops == {l \in Loops : loopPc[l] \notin {"none", "exited"}}

\* A loop that leaves archiveLoop when archiveFinalized returns an error.
ExitOnError(err) == IF err = "nil" THEN "wait" ELSE "exited"

\* Where archiveLoop goes after archiveFinalized returned err: the error
\* is logged and the loop goes (back) to its select.
AfterCycle(err) == "wait"

\* What archiveFinalized can return.
CycleResults == {"nil", "error"}

\* Start: a.wg.Add(1); go a.archiveLoop().  The l-th call creates loop l.
Start(l) ==
    /\ Running
    /\ loopPc[l] = "none"
    /\ \A k \in Loops : k < l => loopPc[k] # "none"
    /\ wg' = wg + 1
    /\ loopPc' = [loopPc EXCEPT ![l] = "start"]
    /\ UNCHANGED <<stopCh, loopErr, stopPc>>
    /\ UNCHANGED otherThanLife

\* A goroutine calls Stop.
StopCall(c) ==
    /\ Running
    /\ stopPc[c] \in {"idle", "returned"}
    /\ stopPc' = [stopPc EXCEPT ![c] = "select"]
    /\ UNCHANGED <<stopCh, wg, loopPc, loopErr>>
    /\ UNCHANGED otherThanLife

\* The select of Stop: return when stopCh is closed, else the default
\* branch.
StopSelect(c) ==
    /\ Running
    /\ stopPc[c] = "select"
    /\ stopPc' = [stopPc EXCEPT ![c] = IF stopCh = "closed" THEN "returned"
                                       ELSE "default"]
    /\ UNCHANGED <<stopCh, wg, loopPc, loopErr>>
    /\ UNCHANGED otherThanLife

\* close(a.stopCh) in the default branch; closing a closed channel panics.
StopClose(c) ==
    /\ Running
    /\ stopPc[c] = "default"
    /\ IF stopCh = "closed"
       THEN /\ stopPc' = [stopPc EXCEPT ![c] = "panicked"]
            /\ UNCHANGED stopCh
       ELSE /\ stopCh' = "closed"
            /\ stopPc' = [stopPc EXCEPT ![c] = "waiting"]
    /\ UNCHANGED <<wg, loopPc, loopErr>>
    /\ UNCHANGED otherThanLife

\* a.wg.Wait() returns when the counter is zero, and Stop with it.
StopWait(c) ==
    /\ Running
    /\ stopPc[c] = "waiting"
    /\ wg = 0
    /\ stopPc' = [stopPc EXCEPT ![c] = "returned"]
    /\ UNCHANGED <<stopCh, wg, loopPc, loopErr>>
    /\ UNCHANGED otherThanLife

\* archiveLoop calls archiveFinalized once before its select loop.
LoopFirstCycle(l) ==
    /\ Running
    /\ loopPc[l] = "start"
    /\ loopPc' = [loopPc EXCEPT ![l] = "scan"]
    /\ UNCHANGED <<stopCh, wg, loopErr, stopPc>>
    /\ UNCHANGED otherThanLife

\* case <-ticker.C: archiveFinalized.  The select may take this case also
\* when stopCh is closed.
LoopTick(l) ==
    /\ Running
    /\ loopPc[l] = "wait"
    /\ loopPc' = [loopPc EXCEPT ![l] = "scan"]
    /\ UNCHANGED <<stopCh, wg, loopErr, stopPc>>
    /\ UNCHANGED otherThanLife

\* case <-a.stopCh: return, and the deferred a.wg.Done().
LoopStopped(l) ==
    /\ Running
    /\ loopPc[l] = "wait"
    /\ stopCh = "closed"
    /\ loopPc' = [loopPc EXCEPT ![l] = "exited"]
    /\ wg' = wg - 1
    /\ UNCHANGED <<stopCh, loopErr, stopPc>>
    /\ UNCHANGED otherThanLife

\* archiveFinalized: archiveBatch.Write() of a chunk returned no error.
CycleWrite(l) ==
    /\ Running
    /\ loopPc[l] = "scan"
    /\ loopPc' = [loopPc EXCEPT ![l] = "written"]
    /\ UNCHANGED <<stopCh, wg, loopErr, stopPc>>
    /\ UNCHANGED otherThanLife

\* archiveFinalized: the Delete of every key of the written chunk was
\* attempted (a failed Delete is logged).
CycleDeletes(l) ==
    /\ Running
    /\ loopPc[l] = "written"
    /\ loopPc' = [loopPc EXCEPT ![l] = "scan"]
    /\ UNCHANGED <<stopCh, wg, loopErr, stopPc>>
    /\ UNCHANGED otherThanLife

\* archiveFinalized returns: nil, or the error of an archive write or of
\* the iterator.
CycleReturn(l, err) ==
    /\ Running
    /\ loopPc[l] = "scan"
    /\ loopPc' = [loopPc EXCEPT ![l] = AfterCycle(err)]
    /\ loopErr' = [loopErr EXCEPT ![l] = err]
    /\ wg' = IF AfterCycle(err) = "exited" THEN wg - 1 ELSE wg
    /\ UNCHANGED <<stopCh, stopPc>>
    /\ UNCHANGED otherThanLife

LifeNext ==
    \/ \E l \in Loops : Start(l)
    \/ \E c \in Stoppers : StopCall(c)
    \/ \E c \in Stoppers : StopSelect(c)
    \/ \E c \in Stoppers : StopClose(c)
    \/ \E c \in Stoppers : StopWait(c)
    \/ \E l \in Loops : LoopFirstCycle(l)
    \/ \E l \in Loops : LoopTick(l)
    \/ \E l \in Loops : LoopStopped(l)
    \/ \E l \in Loops : CycleWrite(l)
    \/ \E l \in Loops : CycleDeletes(l)
    \/ \E l \in Loops, err \in CycleResults : CycleReturn(l, err)

(***************************************************************************)
(* BadgerAncientStore.                                                     *)
(***************************************************************************)
\* Two of the five chain freezer tables.
Tables == {"headers", "hashes"}

\* The blob callers append.
Blob == <<7>>

\* uint64 addition
Add64(a, b) == (a + b) % (MaxUint64 + 1)

NoItems == [x \in {} |-> Nil]

\* What a caller's fn can submit to the batch it is handed.
AncientOps ==
    [op : {"AppendRaw"}, kind : Tables, number : 0..MaxNumber, data : {Blob}]
      \cup [op : {"TruncateAncients", "TruncateTail"}, n : 0..MaxUint64]

\* The calls one fn makes: none, one, or an AppendRaw and one more.
AncientCalls ==
    {<<>>} \cup {<<a>> : a \in AncientOps}
           \cup {<<a, b>> : a \in {o \in AncientOps : o.op = "AppendRaw"},
                            b \in AncientOps}

\* The calls of an fn that appends to the table "headers" only.
HeaderCalls ==
    {c \in AncientCalls :
        \A i \in 1..Len(c) : c[i].op = "AppendRaw" => c[i].kind = "headers"}

\* The batch fn leaves behind.
NewBatch == [ops |-> <<>>, newAncients |-> 0, newTail |-> 0]

\* The number of txn.Set calls ModifyAncients makes for the batch b.
NumSets(b) ==
    Len(b.ops) + (IF b.newAncients > 0 THEN 1 ELSE 0)
               + (IF b.newTail > 0 THEN 1 ELSE 0)

\* ancientBatch.AppendRaw / TruncateAncients / TruncateTail, called in the
\* order calls by fn on the batch b of a store whose counters are
\* storeAncients and storeTail.
RECURSIVE RunFn(_, _, _, _)
RunFn(calls, b, storeAncients, storeTail) ==
    IF calls = <<>> THEN b
    ELSE LET c == Head(calls)
             b2 == IF c.op = "AppendRaw"
                   THEN [b EXCEPT !.ops = Append(@, c),
                                  !.newAncients = IF c.number >= storeAncients
                                                  THEN Add64(c.number, 1) ELSE @]
                   ELSE IF c.op = "TruncateAncients"
                   THEN [b EXCEPT !.newAncients = c.n]
                   ELSE [b EXCEPT !.newTail = Add64(storeTail, c.n)]
         IN RunFn(Tail(calls), b2, storeAncients, storeTail)

\* txn.Set(makeAncientKey(op.kind, op.number), op.data) for every op of ops.
RECURSIVE SetItems(_, _)
SetItems(items, ops) ==
    IF ops = <<>> THEN items
    ELSE LET o == Head(ops)
             key == <<o.kind, o.number>> IN
         SetItems([x \in DOMAIN items \cup {key} |->
                      IF x = key THEN o.data ELSE items[x]], Tail(ops))

\* meta.size.Add(len(op.data)) for every op of ops.
RECURSIVE AddSizes(_, _)
AddSizes(size, ops) ==
    IF ops = <<>> THEN size
    ELSE LET o == Head(ops) IN
         AddSizes([size EXCEPT ![o.kind] = @ + Len(o.data)], Tail(ops))

\* txn.Delete of the items numbered from..to-1 in every table.
DeleteItems(items, from, to) ==
    [x \in {y \in DOMAIN items : ~(from <= y[2] /\ y[2] < to)} |-> items[x]]

\* HasAncient(kind, number)
HasAncient(kind, number) == <<kind, number>> \in DOMAIN storedItems

\* The loop of AncientRange from its turn i on, with the items collected
\* so far and their totalBytes.
RECURSIVE RangeLoop(_, _, _, _, _, _, _, _)
RangeLoop(items, kind, start, count, maxBytes, i, collected, totalBytes) ==
    IF i >= count THEN collected
    ELSE LET key == <<kind, Add64(start, i)>> IN
         IF key \notin DOMAIN items THEN collected
         ELSE LET data == items[key] IN
              IF maxBytes > 0 /\ totalBytes + Len(data) > maxBytes
              THEN IF Len(collected) = 0 THEN <<data>> ELSE collected
              ELSE RangeLoop(items, kind, start, count, maxBytes, i + 1,
                             Append(collected, data), totalBytes + Len(data))

\* An AncientRange that returns nothing when the item at start alone is
\* larger than maxBytes.
RangeWithinLimit(items, kind, start, count, maxBytes) ==
    LET r == RangeLoop(items, kind, start, count, maxBytes, 0, <<>>, 0) IN
    IF maxBytes > 0 /\ r # <<>> /\ Len(r[1]) > maxBytes THEN <<>> ELSE r

\* AncientRange(kind, start, count, maxBytes) on a store that holds items.
AncientRange(items, kind, start, count, maxBytes) ==
    RangeLoop(items, kind, start, count, maxBytes, 0, <<>>, 0)

\* No AncientRange call has been made.
NoRange == [op |-> "none"]

Handles == 1..MaxHandles

\* No read-only handle is open on the store's path.
NoHandles ==
    /\ roOpen = [h \in Handles |-> FALSE]
    /\ roAncients = [h \in Handles |-> 0]
    /\ roTail = [h \in Handles |-> 0]
    /\ roErr = "nil"

\* NewBadgerAncientStore on a fresh path.
AncientOpen ==
    /\ storedItems = NoItems /\ storedCount = 0 /\ storedTail = 0
    /\ ancients = 0 /\ tail = 0
    /\ tableSize = [t \in Tables |-> 0]
    /\ ancAct = "open" /\ ancErr = "nil"
    /\ rangeRes = NoRange
    /\ NoHandles

\* ModifyAncients(fn) with an fn that makes the calls and then returns an
\* error (fnErr) or nil.  failAt = 0: every write and the commit succeed;
\* failAt = j: the j-th txn.Set of the transaction returns an error;
\* failAt = (number of txn.Set) + 1: the commit returns an error.
ModifyAncients(calls, fnErr, failAt) ==
    LET b == RunFn(calls, NewBatch, ancients, tail)
        nOps == Len(b.ops)
        setCount == b.newAncients > 0
        setTail == b.newTail > 0
        ok == failAt = 0
        opsDone == IF ok \/ failAt > nOps THEN nOps ELSE failAt - 1
        countStored == setCount /\ (ok \/ failAt > nOps)
        tailStored == setTail /\ (ok \/ failAt > nOps + (IF setCount THEN 1 ELSE 0))
        size2 == AddSizes(tableSize, SubSeq(b.ops, 1, opsDone))
    IN
    /\ ancAct' = "ModifyAncients"
    /\ IF fnErr
       THEN /\ failAt = 0
            /\ ancErr' = "fn error"
            /\ UNCHANGED <<storedItems, storedCount, storedTail, ancients, tail, tableSize>>
       ELSE /\ failAt \in 0..(NumSets(b) + 1)
            /\ \A t \in Tables : size2[t] <= MaxSize
            /\ tableSize' = size2
            /\ ancients' = IF countStored THEN b.newAncients ELSE ancients
            /\ tail' = IF tailStored THEN b.newTail ELSE tail
            /\ storedItems' = IF ok THEN SetItems(storedItems, b.ops) ELSE storedItems
            /\ storedCount' = IF ok /\ setCount THEN b.newAncients ELSE storedCount
            /\ storedTail' = IF ok /\ setTail THEN b.newTail ELSE storedTail
            /\ ancErr' = IF ok THEN "nil" ELSE "ErrTxn"
    /\ UNCHANGED otherThanAncient

\* TruncateHead(n), which is TruncateAncients(n).  fail = "delete": a
\* txn.Delete returns an error; fail = "commit": the txn.Set of the count or
\* the commit returns an error.
TruncateHead(n, fail) ==
    /\ ancAct' = "TruncateHead"
    /\ IF n >= ancients
       THEN /\ fail = "none"
            /\ ancErr' = "nil"
            /\ UNCHANGED <<storedItems, storedCount, storedTail, ancients, tail, tableSize>>
       ELSE /\ ancients' = IF fail = "delete" THEN ancients ELSE n
            /\ storedItems' = IF fail = "none" THEN DeleteItems(storedItems, n, ancients)
                              ELSE storedItems
            /\ storedCount' = IF fail = "none" THEN n ELSE storedCount
            /\ ancErr' = IF fail = "none" THEN "nil" ELSE "ErrTxn"
            /\ UNCHANGED <<storedTail, tail, tableSize>>
    /\ UNCHANGED otherThanAncient

\* TruncateTail(n)
TruncateTail(n, fail) ==
    LET oldTail == tail
        newTail == Add64(oldTail, n) IN
    /\ ancAct' = "TruncateTail"
    /\ IF newTail > ancients
       THEN /\ fail = "none"
            /\ ancErr' = "truncate tail beyond ancients"
            /\ UNCHANGED <<storedItems, storedCount, storedTail, ancients, tail, tableSize>>
       ELSE /\ tail' = IF fail = "delete" THEN tail ELSE newTail
            /\ storedItems' = IF fail = "none" THEN DeleteItems(storedItems, oldTail, newTail)
                              ELSE storedItems
            /\ storedTail' = IF fail = "none" THEN newTail ELSE storedTail
            /\ ancErr' = IF fail = "none" THEN "nil" ELSE "ErrTxn"
            /\ UNCHANGED <<storedCount, ancients, tableSize>>
    /\ UNCHANGED otherThanAncient

\* Close, then NewBadgerAncientStore on the same path (loadMetadata).
AncientReopen ==
    /\ ancients' = storedCount
    /\ tail' = storedTail
    /\ tableSize' = [t \in Tables |-> 0]
    /\ ancAct' = "open"
    /\ ancErr' = "nil"
    /\ UNCHANGED <<storedItems, storedCount, storedTail>>
    /\ UNCHANGED otherThanAncient

\* The store while no Badger transaction fails.
AncientNext ==
    \/ \E calls \in AncientCalls, fnErr \in BOOLEAN : ModifyAncients(calls, fnErr, 0)
    \/ \E n \in 0..MaxUint64 : TruncateHead(n, "none")
    \/ \E n \in 0..MaxUint64 : TruncateTail(n, "none")
    \/ AncientReopen

\* A blob of two bytes.
BigBlob == <<8, 8>>

\* NewBadgerAncientStore on a path where the table "headers" holds the
\* items tail..ancients-1, each one of the two blobs.
RangeOpen ==
    /\ ancients \in 0..(MaxNumber + 1)
    /\ tail \in 0..ancients
    /\ storedItems \in [{"headers"} \X (tail..(ancients - 1)) -> {Blob, BigBlob}]
    /\ storedCount = ancients /\ storedTail = tail
    /\ tableSize = [t \in Tables |-> 0]
    /\ ancAct = "open" /\ ancErr = "nil"
    /\ rangeRes = NoRange
    /\ NoHandles

\* A caller's AncientRange(kind, start, count, maxBytes).
AncientRead(kind, start, count, maxBytes) ==
    /\ rangeRes' = [op |-> "AncientRange", kind |-> kind, start |-> start,
                    count |-> count, maxBytes |-> maxBytes,
                    items |-> AncientRange(storedItems, kind, start, count, maxBytes),
                    err |-> "nil"]
    /\ UNCHANGED otherThanRange

RangeNext ==
    \E kind \in Tables, start \in 0..MaxUint64, count \in 0..MaxCount, maxBytes \in 0..MaxRangeBytes :
        AncientRead(kind, start, count, maxBytes)

\* The transaction of ModifyAncients for the batch b on a database opened
\* with ReadOnly, by a handle whose counters are anc and tl: the first
\* txn.Set returns ErrReadOnlyTxn and ends the closure; s.ancients.Store
\* and s.tail.Store come before the txn.Set of their keys.
ReadOnlyModify(b, anc, tl) ==
    IF NumSets(b) = 0 THEN [err |-> "nil", ancients |-> anc, tail |-> tl]
    ELSE IF Len(b.ops) > 0
    THEN [err |-> "ErrReadOnlyTxn", ancients |-> anc, tail |-> tl]
    ELSE IF b.newAncients > 0
    THEN [err |-> "ErrReadOnlyTxn", ancients |-> b.newAncients, tail |-> tl]
    ELSE [err |-> "ErrReadOnlyTxn", ancients |-> anc, tail |-> b.newTail]

\* NewSharedBadgerAncientStore on the path of the store: loadMetadata.
SharedOpen(h) ==
    /\ ~roOpen[h]
    /\ roOpen' = [roOpen EXCEPT ![h] = TRUE]
    /\ roAncients' = [roAncients EXCEPT ![h] = storedCount]
    /\ roTail' = [roTail EXCEPT ![h] = storedTail]
    /\ roErr' = "nil"
    /\ UNCHANGED ancVars
    /\ UNCHANGED otherThanShared

\* Close of a read-only handle.
SharedClose(h) ==
    /\ roOpen[h]
    /\ roOpen' = [roOpen EXCEPT ![h] = FALSE]
    /\ roAncients' = [roAncients EXCEPT ![h] = 0]
    /\ roTail' = [roTail EXCEPT ![h] = 0]
    /\ roErr' = "nil"
    /\ UNCHANGED ancVars
    /\ UNCHANGED otherThanShared

\* ModifyAncients(fn) through the read-only handle h.
SharedModify(h, calls) ==
    LET b == RunFn(calls, NewBatch, roAncients[h], roTail[h])
        r == ReadOnlyModify(b, roAncients[h], roTail[h]) IN
    /\ roOpen[h]
    /\ roAncients' = [roAncients EXCEPT ![h] = r.ancients]
    /\ roTail' = [roTail EXCEPT ![h] = r.tail]
    /\ roErr' = r.err
    /\ UNCHANGED <<roOpen, ancVars>>
    /\ UNCHANGED otherThanShared

\* TruncateHead(n) through the read-only handle h: nothing to do for
\* n >= s.ancients, else the first txn.Delete returns ErrReadOnlyTxn.
SharedTruncateHead(h, n) ==
    /\ roOpen[h]
    /\ roErr' = IF n >= roAncients[h] THEN "nil" ELSE "ErrReadOnlyTxn"
    /\ UNCHANGED <<roOpen, roAncients, roTail, ancVars>>
    /\ UNCHANGED otherThanShared

\* TruncateTail(n) through the read-only handle h: with items to delete the
\* first txn.Delete returns ErrReadOnlyTxn; with none, s.tail.Store(newTail)
\* comes before the txn.Set that returns it.
SharedTruncateTail(h, n) ==
    LET oldTail == roTail[h]
        newTail == Add64(oldTail, n) IN
    /\ roOpen[h]
    /\ IF newTail > roAncients[h]
       THEN /\ roErr' = "truncate tail beyond ancients"
            /\ UNCHANGED roTail
       ELSE /\ roErr' = "ErrReadOnlyTxn"
            /\ roTail' = IF oldTail < newTail THEN roTail
                         ELSE [roTail EXCEPT ![h] = newTail]
    /\ UNCHANGED <<roOpen, roAncients, ancVars>>
    /\ UNCHANGED otherThanShared

SharedNext ==
    \/ \E h \in Handles : SharedOpen(h)
    \/ \E h \in Handles : SharedClose(h)
    \/ \E h \in Handles, calls \in AncientCalls : SharedModify(h, calls)
    \/ \E h \in Handles, n \in 0..MaxUint64 : SharedTruncateHead(h, n)
    \/ \E h \in Handles, n \in 0..MaxUint64 : SharedTruncateTail(h, n)

\* How a Badger transaction fails.
Failures == {"none", "delete", "commit"}

\* The store with Badger transactions that fail, one table in use.
AncientFaultNext ==
    \/ \E calls \in HeaderCalls, fnErr \in BOOLEAN : \E failAt \in 0..(NumSets(RunFn(calls, NewBatch, ancients, tail)) + 1) : ModifyAncients(calls, fnErr, failAt)
    \/ \E n \in 0..MaxUint64, fail \in Failures : TruncateHead(n, fail)
    \/ \E n \in 0..MaxUint64, fail \in Failures : TruncateTail(n, fail)
    \/ AncientReopen

(***************************************************************************)
(* GenesisReplayer.                                                        *)
(***************************************************************************)
\* []byte("LastReplayedHeight")
CheckpointKey ==
    <<76, 97, 115, 116, 82, 101, 112, 108, 97, 121, 101, 100, 72, 101, 105, 103, 104, 116>>

\* The canonical hash the source holds for a height: 32 bytes.
HashOf(height) == [i \in 1..32 |-> height]

\* var block *types.Block, never assigned.
NilBlock == [verdict |-> "no block"]

\* decodeUint64
DecodeUint64(data) ==
    IF Len(data) < 8 THEN 0 ELSE DecodeFrom(0, SubSeq(data, 1, 8))

\* append([]byte("h"), encodeUint64(height)...)
CanonicalKey(height) == <<104>> \o EncodeBlockNumber(height)

IsPrefix(p, key) == Len(p) <= Len(key) /\ SubSeq(key, 1, Len(p)) = p

\* A tip read from the checkpoint record instead of the canonical hash
\* records.
TipOfCheckpoint(db) ==
    IF CheckpointKey \in DOMAIN db THEN DecodeUint64(db[CheckpointKey]) ELSE 0

\* getTargetTip: a reverse iterator with Prefix "h" after Rewind() stands
\* on the largest key that is not greater than "h"; it is valid when that
\* key carries the prefix.
GetTargetTip(db) ==
    LET below == {k \in DOMAIN db : k = <<104>> \/ BytesLess(k, <<104>>)} IN
    IF below = {} THEN 0
    ELSE LET key == CHOOSE k \in below : \A y \in below \ {k} : BytesLess(y, k) IN
         IF IsPrefix(<<104>>, key) /\ Len(key) >= 9
         THEN DecodeUint64(SubSeq(key, 2, 9)) ELSE 0

\* The lastReplayed that checkReplayStatus reads from the target.
Checkpoint(db) ==
    IF CheckpointKey \in DOMAIN db /\ Len(db[CheckpointKey]) >= 8
    THEN DecodeUint64(db[CheckpointKey]) ELSE 0

\* checkReplayStatus: the start height.
StartHeight(db) ==
    IF Checkpoint(db) > GetTargetTip(db) THEN GetTargetTip(db) + 1
    ELSE Checkpoint(db) + 1

\* replayBlock: block.NumberU64() on the nil block panics; otherwise the
\* header, body, canonical hash and total difficulty records are written.
ReplayBlock(writes, block, height, hash) ==
    IF block = NilBlock THEN [outcome |-> "panic", writes |-> writes]
    ELSE [outcome |-> "nil",
          writes |-> (<<104>> \o hash \o EncodeBlockNumber(height) :> <<1>>)
                       @@ (<<98>> \o hash \o EncodeBlockNumber(height) :> <<2>>)
                       @@ (CanonicalKey(height) :> hash)
                       @@ (<<116>> \o hash \o EncodeBlockNumber(height) :> <<3>>)
                       @@ writes]

\* verifyBlock: a nil block passes; the checks of a block that is not nil
\* are those of its number, parent hash and hash.
VerifyBlock(block) ==
    IF block = NilBlock THEN "nil" ELSE block.verdict

\* A batch loop that skips a height without canonical hash whatever
\* continueOnError is.
RECURSIVE SkipEveryMissing(_, _, _, _, _, _)
SkipEveryMissing(height, endHeight, hashes, skipMissing, verify, writes) ==
    IF height > endHeight THEN [outcome |-> "nil", writes |-> writes]
    ELSE IF height \notin hashes
    THEN SkipEveryMissing(height + 1, endHeight, hashes, skipMissing, verify, writes)
    ELSE [outcome |-> "panic", writes |-> writes]

\* The loop of replayBatch over height..endHeight with the writes made so
\* far in its transaction.  The commit inside the loop is behind the call
\* of replayBlock, which does not return.
RECURSIVE BatchLoop(_, _, _, _, _, _)
BatchLoop(height, endHeight, hashes, skipMissing, verify, writes) ==
    IF height > endHeight THEN [outcome |-> "nil", writes |-> writes]
    ELSE IF height \notin hashes
    THEN IF skipMissing
         THEN BatchLoop(height + 1, endHeight, hashes, skipMissing, verify, writes)
         ELSE [outcome |-> "no canonical hash", writes |-> writes]
    ELSE LET block == NilBlock
             r == ReplayBlock(writes, block, height, HashOf(height)) IN
         IF verify /\ VerifyBlock(block) # "nil"
         THEN [outcome |-> "block verification failed", writes |-> writes]
         ELSE IF r.outcome # "nil" THEN r
         ELSE BatchLoop(height + 1, endHeight, hashes, skipMissing, verify, r.writes)

\* A target that already holds the records of heights 1..tip and the
\* checkpoint tip: the records are those replayBlock writes for a block.
RECURSIVE ReplayedTarget(_)
ReplayedTarget(tip) ==
    IF tip = 0 THEN EmptyStore
    ELSE (CheckpointKey :> EncodeBlockNumber(tip))
           @@ ReplayBlock(ReplayedTarget(tip - 1), [verdict |-> "nil"],
                          tip, HashOf(tip)).writes

\* NewGenesisReplayer over a source and a target that is fresh or already
\* holds the records of some heights.
ReplayOpen ==
    /\ sourceTip \in 0..MaxTip
    /\ sourceHashes \in SUBSET (1..sourceTip)
    /\ rpBatchSize \in 1..MaxBatchSize
    /\ verifyBlocks \in BOOLEAN
    /\ continueOnError \in BOOLEAN
    /\ target \in {ReplayedTarget(t) : t \in 0..sourceTip}
    /\ rpPc = "idle" /\ rpHeight = 0 /\ rpErr = "nil"
    /\ lastReplayed = 0 /\ rpRuns = 0

\* A replayer that is never created (the other specifications).
ReplayClosed ==
    /\ sourceTip = 0 /\ sourceHashes = {} /\ rpBatchSize = 1
    /\ verifyBlocks = FALSE /\ continueOnError = FALSE
    /\ target = EmptyStore
    /\ rpPc = "idle" /\ rpHeight = 0 /\ rpErr = "nil"
    /\ lastReplayed = 0 /\ rpRuns = 0

replayConfig == <<sourceTip, sourceHashes, rpBatchSize, verifyBlocks, continueOnError>>

\* Replay up to the batch loop, in a process started for it.
ReplayStart ==
    /\ rpPc \in {"idle", "returned", "panicked", "interrupted"}
    /\ rpRuns < MaxRuns
    /\ rpRuns' = rpRuns + 1
    /\ lastReplayed' = 0
    /\ IF sourceTip = 0
       THEN rpPc' = "returned" /\ rpErr' = "source database has no blocks"
                               /\ rpHeight' = 0
       ELSE IF GetTargetTip(target) >= sourceTip
       THEN rpPc' = "verify" /\ rpErr' = "nil" /\ rpHeight' = 0
       ELSE rpPc' = "batches" /\ rpErr' = "nil" /\ rpHeight' = StartHeight(target)
    /\ UNCHANGED <<replayConfig, target>>
    /\ UNCHANGED otherThanReplay

\* One turn of the batch loop of Replay: replayBatch(height, endHeight).
ReplayBatch ==
    LET endHeight == IF rpHeight + rpBatchSize - 1 > sourceTip THEN sourceTip
                     ELSE rpHeight + rpBatchSize - 1
        r == BatchLoop(rpHeight, endHeight, sourceHashes, continueOnError,
                       verifyBlocks, EmptyStore)
    IN
    /\ rpPc = "batches"
    /\ IF rpHeight > sourceTip
       THEN rpPc' = "verify" /\ UNCHANGED <<target, rpHeight, rpErr, lastReplayed>>
       ELSE IF r.outcome = "panic"
       THEN rpPc' = "panicked" /\ UNCHANGED <<target, rpHeight, rpErr, lastReplayed>>
       ELSE IF r.outcome # "nil"
       THEN IF continueOnError
            THEN /\ rpHeight' = rpHeight + rpBatchSize
                 /\ UNCHANGED <<target, rpPc, rpErr, lastReplayed>>
            ELSE /\ rpPc' = "returned"
                 /\ rpErr' = "failed to replay batch"
                 /\ UNCHANGED <<target, rpHeight, lastReplayed>>
       ELSE /\ target' = ApplyEntries(target,
                           [k \in DOMAIN r.writes \cup {CheckpointKey} |->
                               IF k = CheckpointKey
                               THEN SetEntry(EncodeBlockNumber(endHeight))
                               ELSE SetEntry(r.writes[k])])
            /\ lastReplayed' = endHeight
            /\ rpHeight' = rpHeight + rpBatchSize
            /\ UNCHANGED <<rpPc, rpErr>>
    /\ UNCHANGED <<replayConfig, rpRuns>>
    /\ UNCHANGED otherThanReplay

\* verifyTips(sourceDB, sourceTip), and the return of Replay.
ReplayVerify ==
    /\ rpPc = "verify"
    /\ rpPc' = "returned"
    /\ rpErr' = IF GetTargetTip(target) # sourceTip THEN "tip mismatch" ELSE "nil"
    /\ UNCHANGED <<replayConfig, target, rpHeight, lastReplayed, rpRuns>>
    /\ UNCHANGED otherThanReplay

\* The process is stopped between two batches.
ReplayInterrupt ==
    /\ rpPc = "batches"
    /\ rpPc' = "interrupted"
    /\ UNCHANGED <<replayConfig, target, rpHeight, rpErr, lastReplayed, rpRuns>>
    /\ UNCHANGED otherThanReplay

ReplayNext ==
    \/ ReplayStart
    \/ ReplayBatch
    \/ ReplayVerify
    \/ ReplayInterrupt

(***************************************************************************)
(* BadgerSnapshot.                                                         *)
(*   snVersions  the committed contents of the database after each commit  *)
(*               (Badger keeps the versions a live transaction can read)   *)
(*   snTxn       BadgerSnapshot.txn: NoTxn, or the read-only transaction   *)
(*               with the commit it reads at                               *)
(*   snAtCreate  the contents of the database when NewSnapshot was called  *)
(*   snRes       the last call on the snapshot and what it returned        *)
(*   snReleases  the number of Release calls                               *)
(***************************************************************************)
\* A transaction that reads the newest committed contents.
ReadLatest(versions, readTs) == versions[Len(versions)]

\* What a read-only transaction made at commit readTs reads.
ReadAt(versions, readTs) == versions[readTs]

SnapAlive == snRes.op # "panic"

\* NewBadgerDatabase on a path that holds the store s.
SnapOpenDb(s) ==
    /\ snVersions = <<>>
    /\ snVersions' = <<s>>
    /\ UNCHANGED <<snTxn, snAtCreate, snRes, snReleases>>
    /\ UNCHANGED otherThanSnap

\* Put on the database.
SnapPut(k, v, commitOk) ==
    LET r == BadgerPut(snVersions[Len(snVersions)], FALSE, k, v, commitOk) IN
    /\ SnapAlive
    /\ snVersions # <<>> /\ Len(snVersions) <= MaxCommits
    /\ snVersions' = IF r.err = "nil" THEN Append(snVersions, r.db) ELSE snVersions
    /\ snRes' = [op |-> "Put", key |-> k, res |-> [err |-> r.err]]
    /\ UNCHANGED <<snTxn, snAtCreate, snReleases>>
    /\ UNCHANGED otherThanSnap

\* Delete on the database.
SnapDelete(k, commitOk) ==
    LET r == BadgerDelete(snVersions[Len(snVersions)], FALSE, k, commitOk) IN
    /\ SnapAlive
    /\ snVersions # <<>> /\ Len(snVersions) <= MaxCommits
    /\ snVersions' = IF r.err = "nil" THEN Append(snVersions, r.db) ELSE snVersions
    /\ snRes' = [op |-> "Delete", key |-> k, res |-> [err |-> r.err]]
    /\ UNCHANGED <<snTxn, snAtCreate, snReleases>>
    /\ UNCHANGED otherThanSnap

\* NewSnapshot: db.NewTransaction(false).
NewSnapshot ==
    /\ SnapAlive
    /\ snVersions # <<>>
    /\ snTxn = NoTxn /\ snReleases = 0
    /\ snTxn' = [live |-> TRUE, readTs |-> Len(snVersions)]
    /\ snAtCreate' = snVersions[Len(snVersions)]
    /\ snRes' = [op |-> "NewSnapshot", key |-> Nil, res |-> [err |-> "nil"]]
    /\ UNCHANGED <<snVersions, snReleases>>
    /\ UNCHANGED otherThanSnap

\* BadgerSnapshot.Get(k); s.txn is nil after Release and the call panics.
SnapshotGet(k) ==
    /\ SnapAlive
    /\ snTxn.live \/ snReleases > 0
    /\ snRes' = IF snTxn.live
                THEN [op |-> "Get", key |-> k,
                      res |-> BadgerGet(ReadAt(snVersions, snTxn.readTs), k)]
                ELSE [op |-> "panic", key |-> k, res |-> [err |-> "nil pointer"]]
    /\ UNCHANGED <<snVersions, snTxn, snAtCreate, snReleases>>
    /\ UNCHANGED otherThanSnap

\* BadgerSnapshot.Has(k)
SnapshotHas(k) ==
    /\ SnapAlive
    /\ snTxn.live \/ snReleases > 0
    /\ snRes' = IF snTxn.live
                THEN [op |-> "Has", key |-> k,
                      res |-> BadgerHas(ReadAt(snVersions, snTxn.readTs), k)]
                ELSE [op |-> "panic", key |-> k, res |-> [err |-> "nil pointer"]]
    /\ UNCHANGED <<snVersions, snTxn, snAtCreate, snReleases>>
    /\ UNCHANGED otherThanSnap

\* BadgerSnapshot.Release: Discard when s.txn is not nil, then s.txn = nil.
SnapshotRelease ==
    /\ SnapAlive
    /\ snTxn.live \/ snReleases > 0
    /\ snReleases < MaxReleases
    /\ snTxn' = NoTxn
    /\ snReleases' = snReleases + 1
    /\ snRes' = [op |-> "Release", key |-> Nil, res |-> [err |-> "nil"]]
    /\ UNCHANGED <<snVersions, snAtCreate>>
    /\ UNCHANGED otherThanSnap

\* The stores a snapshot's database is opened on.
SnapStores == {EmptyStore, [x \in {<<97>>} |-> <<1>>]}

SnapNext ==
    \/ \E s \in SnapStores : SnapOpenDb(s)
    \/ \E k \in KVKeys, v \in KVValues, ok \in BOOLEAN : SnapPut(k, v, ok)
    \/ \E k \in KVKeys, ok \in BOOLEAN : SnapDelete(k, ok)
    \/ NewSnapshot
    \/ \E k \in KVKeys : SnapshotGet(k)
    \/ \E k \in KVKeys : SnapshotHas(k)
    \/ SnapshotRelease

(***************************************************************************)
(* Iterators: badgerIterator of BadgerDatabase and the iterator of the     *)
(* wrapper returned by New.                                                *)
(*   itRes   the last NewIterator call: the store, prefix and start it     *)
(*           was made with and the keys its Next calls yielded, in order   *)
(***************************************************************************)
\* The keys of sorted from the first that is not below seekKey on:
\* Seek(seekKey), or Rewind() for an empty seekKey.
RECURSIVE SeekFrom(_, _)
SeekFrom(sorted, seekKey) ==
    IF sorted = <<>> THEN <<>>
    ELSE IF BytesLess(Head(sorted), seekKey) THEN SeekFrom(Tail(sorted), seekKey)
    ELSE sorted

\* The longest head of sorted whose keys carry the prefix: the iterator is
\* valid up to the first key that lacks it.
RECURSIVE WhilePrefix(_, _)
WhilePrefix(sorted, prefix) ==
    IF sorted = <<>> THEN <<>>
    ELSE IF IsPrefix(prefix, Head(sorted))
    THEN <<Head(sorted)>> \o WhilePrefix(Tail(sorted), prefix)
    ELSE <<>>

\* badgerIterator.init: the seek position.
SeekKey(prefix, start) ==
    IF Len(start) > 0
    THEN IF IsPrefix(prefix, start) THEN start ELSE prefix \o start
    ELSE prefix

\* The keys the Next calls of a badgerIterator yield: the first call loads
\* the position of the seek, every later one advances.
BadgerIterate(db, prefix, start) ==
    WhilePrefix(SeekFrom(SortedKeys(DOMAIN db), SeekKey(prefix, start)), prefix)

\* The keys the Next calls of the wrapper's iterator yield: database
\* .NewIterator seeks to start, or else to prefix, and every Next call, the
\* first included, advances before it looks at the key.
WrapperIterate(db, prefix, start) ==
    LET seek == IF start # Nil THEN start ELSE prefix
        at == SeekFrom(SortedKeys(DOMAIN db), seek) IN
    IF at = <<>> THEN <<>> ELSE WhilePrefix(Tail(at), prefix)

\* The stores, prefixes and start keys iterators are made with.
IterKeys == {<<97>>, <<97, 98>>, <<98>>}
IterStores == UNION {[D -> {<<1>>}] : D \in SUBSET IterKeys}
IterPrefixes == {Nil, <<97>>, <<98>>}
IterStarts == {Nil, <<97>>, <<97, 98>>, <<98>>}

\* BadgerDatabase.NewIterator(prefix, start) on the store db, then Next
\* until it returns false.
IterateBadger(db, prefix, start) ==
    /\ itRes' = [op |-> "BadgerDatabase", db |-> db, prefix |-> prefix,
                 start |-> start, keys |-> BadgerIterate(db, prefix, start)]
    /\ UNCHANGED otherThanIter

\* NewIterator(prefix, start) of the wrapper on the store db, then Next
\* until it returns false.  With prefix and start both nil the Badger
\* iterator is never positioned; that call is left out.
IterateWrapper(db, prefix, start) ==
    /\ prefix # Nil \/ start # Nil
    /\ itRes' = [op |-> "database", db |-> db, prefix |-> prefix,
                 start |-> start, keys |-> WrapperIterate(db, prefix, start)]
    /\ UNCHANGED otherThanIter

IterNext ==
    \/ \E db \in IterStores, prefix \in IterPrefixes, start \in IterStarts :
          IterateBadger(db, prefix, start)
    \/ \E db \in IterStores, prefix \in IterPrefixes, start \in IterStarts :
          IterateWrapper(db, prefix, start)

(***************************************************************************)
(* dualIterator of DualBadgerDatabase.                                     *)
(***************************************************************************)
\* The entries a badgerIterator over db yields.
BadgerEntries(db, prefix, start) ==
    LET keys == BadgerIterate(db, prefix, start) IN
    [i \in 1..Len(keys) |-> <<keys[i], db[keys[i]]>>]

\* An iterator that yields the current store before the archive.
CurrentFirst(arch, cur, prefix, start) ==
    BadgerEntries(cur, prefix, start) \o BadgerEntries(arch, prefix, start)

\* The entries the Next calls of a dualIterator yield: archiveIter while
\* useArchive and it has a next entry, then currentIter.
DualIterate(arch, cur, prefix, start) ==
    BadgerEntries(arch, prefix, start) \o BadgerEntries(cur, prefix, start)

\* The archive and current stores a dual iterator is made on.
ArchiveStores == UNION {[D -> {<<1>>}] : D \in SUBSET IterKeys}
CurrentStores == UNION {[D -> {<<2, 2>>}] : D \in SUBSET IterKeys}

\* DualBadgerDatabase.NewIterator(prefix, start), then Next until it
\* returns false.
IterateDual(withArchive, arch, cur, prefix, start) ==
    /\ ~withArchive => arch = EmptyStore
    /\ itRes' = [op |-> "DualBadgerDatabase", hasArchive |-> withArchive,
                 archive |-> arch, current |-> cur,
                 prefix |-> prefix, start |-> start,
                 entries |-> IF withArchive
                             THEN DualIterate(arch, cur, prefix, start)
                             ELSE BadgerEntries(cur, prefix, start)]
    /\ UNCHANGED otherThanIter

DualIterNext ==
    \E withArchive \in BOOLEAN, arch \in ArchiveStores, cur \in CurrentStores,
       prefix \in IterPrefixes, start \in IterStarts :
        IterateDual(withArchive, arch, cur, prefix, start)

(***************************************************************************)
(* Put and Get around Close, on a BadgerDatabase and on a                  *)
(* DualBadgerDatabase.                                                     *)
(*   clKind     "none", "BadgerDatabase" or "DualBadgerDatabase"           *)
(*   clClosed   whether Close has returned on the handle                   *)
(*   clCurrent  the contents of the database (of current for a dual one)   *)
(*   clArchive  the contents of the archive of a dual database             *)
(*   clRes      the last call on the handle and what it returned           *)
(***************************************************************************)
\* A database whose transactions do not look at whether it was closed.
IgnoresClose(closed, r) == r

\* db.View(fn) and db.Update(fn) return ErrDBClosed on a closed database,
\* before fn runs; r is what the call returns on an open one.
WhenOpen(closed, r) ==
    IF closed THEN [r EXCEPT !.err = "ErrDBClosed"] ELSE r

\* BadgerDatabase.Get on a handle.
HandleGet(db, closed, k) ==
    LET r == WhenOpen(closed, BadgerGet(db, k)) IN
    IF r.err = "nil" THEN r ELSE [r EXCEPT !.value = Nil]

\* BadgerDatabase.Put on a handle.
HandlePut(db, closed, k, v, commitOk) ==
    LET r == WhenOpen(closed, BadgerPut(db, FALSE, k, v, commitOk)) IN
    IF r.err = "nil" THEN r ELSE [r EXCEPT !.db = db]

\* DualBadgerDatabase.Get: current first, archive when current has not
\* the key.
HandleDualGet(cur, arch, closed, k) ==
    LET c == HandleGet(cur, closed, k) IN
    IF c.err = "nil" THEN c
    ELSE IF c.err # "ErrKeyNotFound" THEN [value |-> Nil, err |-> c.err]
    ELSE HandleGet(arch, closed, k)

ClAlive == clRes.op # "panic"

\* NewBadgerDatabase on a path that holds cur, or NewDualBadgerDatabase on
\* a current path that holds cur and an archive path that holds arch.
HandleOpen(kind, cur, arch) ==
    /\ clKind = "none"
    /\ kind = "BadgerDatabase" => arch = EmptyStore
    /\ clKind' = kind
    /\ clCurrent' = cur
    /\ clArchive' = arch
    /\ UNCHANGED <<clClosed, clRes>>
    /\ UNCHANGED otherThanClose

\* Close on the handle.  A second Close closes the closed channel quitCh
\* of the (current) BadgerDatabase and panics.
HandleClose ==
    /\ ClAlive
    /\ clKind # "none"
    /\ clClosed' = TRUE
    /\ clRes' = IF clClosed THEN [op |-> "panic"]
                ELSE [op |-> "Close", err |-> "nil", closed |-> FALSE]
    /\ UNCHANGED <<clKind, clCurrent, clArchive>>
    /\ UNCHANGED otherThanClose

\* Put(k, v) on the handle.
ClosePut(k, v, commitOk) ==
    LET r == HandlePut(clCurrent, clClosed, k, v, commitOk) IN
    /\ ClAlive
    /\ clKind # "none"
    /\ clCurrent' = r.db
    /\ clRes' = [op |-> "Put", err |-> r.err, closed |-> clClosed]
    /\ UNCHANGED <<clKind, clClosed, clArchive>>
    /\ UNCHANGED otherThanClose

\* Get(k) on the handle.
CloseGet(k) ==
    LET r == IF clKind = "BadgerDatabase"
             THEN HandleGet(clCurrent, clClosed, k)
             ELSE HandleDualGet(clCurrent, clArchive, clClosed, k) IN
    /\ ClAlive
    /\ clKind # "none"
    /\ clRes' = [op |-> "Get", err |-> r.err, value |-> r.value,
                 closed |-> clClosed]
    /\ UNCHANGED <<clKind, clClosed, clCurrent, clArchive>>
    /\ UNCHANGED otherThanClose

\* What the paths hold when the handle is opened.
CloseStores == {EmptyStore, [x \in {<<97>>} |-> <<1>>]}

CloseNext ==
    \/ \E kind \in {"BadgerDatabase", "DualBadgerDatabase"},
          cur \in CloseStores, arch \in CloseStores : HandleOpen(kind, cur, arch)
    \/ HandleClose
    \/ \E k \in KVKeys, v \in KVValues, ok \in BOOLEAN : ClosePut(k, v, ok)
    \/ \E k \in KVKeys : CloseGet(k)

(***************************************************************************)
(* Get of the three key-value implementations.                             *)
(*   gtRes   the last Get: the implementation, the store, the key and      *)
(*           the value and error returned                                  *)
(***************************************************************************)
\* BadgerSnapshot.Get on a snapshot that reads the store db.
SnapshotGetOn(db, k) == BadgerGet(db, k)

\* database.Get of the wrapper returned by New: ErrKeyNotFound is turned
\* into a nil value with a nil error.
WrapperGet(db, k) ==
    LET r == BadgerGet(db, k) IN
    IF r.err = "ErrKeyNotFound" THEN [value |-> Nil, err |-> "nil"] ELSE r

GetImpls == {"BadgerDatabase", "BadgerSnapshot", "database"}

\* The stores Get is called on.
GetStores == UNION {[D -> KVValues] : D \in SUBSET IterKeys}

\* Get(k) of the implementation impl on the store db.
GetCall(impl, db, k) ==
    LET r == IF impl = "BadgerDatabase" THEN HandleGet(db, FALSE, k)
             ELSE IF impl = "BadgerSnapshot" THEN SnapshotGetOn(db, k)
             ELSE WrapperGet(db, k) IN
    /\ gtRes' = [op |-> impl, db |-> db, key |-> k,
                 value |-> r.value, err |-> r.err]
    /\ UNCHANGED otherThanGet

GetNext ==
    \E impl \in GetImpls, db \in GetStores, k \in IterKeys : GetCall(impl, db, k)

(***************************************************************************)
(* badgerBatch with DeleteRange.                                           *)
(*   obStore    the committed contents of the database                     *)
(*   obEntries  badgerBatch.entries                                        *)
(*   obIssued   the Put, Delete and DeleteRange calls made on the batch    *)
(*              since NewBatch or Reset, in the order they were made       *)
(*   obRes      the last call and the error it returned                    *)
(***************************************************************************)
\* badgerBatch.DeleteRange: a delete entry for every key that the database
\* holds in [start, end) at the time of the call.
RangeEntries(db, entries, start, end) ==
    LET hit == {k \in DOMAIN db :
                   /\ ~BytesLess(k, start)
                   /\ end.isNil \/ BytesLess(k, end.bytes)} IN
    [x \in DOMAIN entries \cup hit |-> IF x \in hit THEN DelEntry ELSE entries[x]]

\* NewBadgerDatabase on a path that holds s; NewBatch().
OrderOpen(s) ==
    /\ obRes = NoCall
    /\ obStore' = s
    /\ obRes' = [op |-> "NewBatch", err |-> "nil"]
    /\ UNCHANGED <<obEntries, obIssued>>
    /\ UNCHANGED otherThanOrder

\* badgerBatch.Put(k, v)
OrderPut(k, v) ==
    /\ obRes # NoCall /\ Len(obIssued) < MaxIssued
    /\ obEntries' = StoreSet(obEntries, k, SetEntry(v))
    /\ obIssued' = Append(obIssued, [op |-> "Put", key |-> k, value |-> v])
    /\ obRes' = [op |-> "Put", err |-> "nil"]
    /\ UNCHANGED obStore
    /\ UNCHANGED otherThanOrder

\* badgerBatch.Delete(k)
OrderDelete(k) ==
    /\ obRes # NoCall /\ Len(obIssued) < MaxIssued
    /\ obEntries' = StoreSet(obEntries, k, DelEntry)
    /\ obIssued' = Append(obIssued, [op |-> "Delete", key |-> k])
    /\ obRes' = [op |-> "Delete", err |-> "nil"]
    /\ UNCHANGED obStore
    /\ UNCHANGED otherThanOrder

\* badgerBatch.DeleteRange(start, end)
OrderDeleteRange(start, end) ==
    /\ obRes # NoCall /\ Len(obIssued) < MaxIssued
    /\ obEntries' = RangeEntries(obStore, obEntries, start, end)
    /\ obIssued' = Append(obIssued, [op |-> "DeleteRange", start |-> start,
                                     end |-> end])
    /\ obRes' = [op |-> "DeleteRange", err |-> "nil"]
    /\ UNCHANGED obStore
    /\ UNCHANGED otherThanOrder

\* badgerBatch.Write(): nil for an empty batch, else one Update with every
\* entry.
OrderWrite(commitOk) ==
    LET r == BadgerUpdate(obStore, FALSE, obEntries, DOMAIN obEntries, commitOk) IN
    /\ obRes # NoCall
    /\ obStore' = r.db
    /\ obRes' = [op |-> "Write", err |-> r.err]
    /\ UNCHANGED <<obEntries, obIssued>>
    /\ UNCHANGED otherThanOrder

\* badgerBatch.Reset()
OrderReset ==
    /\ obRes # NoCall
    /\ obEntries' = EmptyStore
    /\ obIssued' = <<>>
    /\ obRes' = [op |-> "Reset", err |-> "nil"]
    /\ UNCHANGED obStore
    /\ UNCHANGED otherThanOrder

\* What the path holds when the database is opened.
OrderStores == {EmptyStore, [x \in {<<98>>} |-> <<1>>]}

OrderNext ==
    \/ \E s \in OrderStores : OrderOpen(s)
    \/ \E k \in KVKeys, v \in KVValues : OrderPut(k, v)
    \/ \E k \in KVKeys : OrderDelete(k)
    \/ \E start \in RangeStarts, end \in RangeEnds : OrderDeleteRange(start, end)
    \/ \E ok \in BOOLEAN : OrderWrite(ok)
    \/ OrderReset

(***************************************************************************)
(* Freezer.                                                                *)
(*   frItems       the block numbers that have items in the ancient store  *)
(*   frAncients    the ancient store's Ancients()                          *)
(*   frLastFrozen  Freezer.lastFrozen                                      *)
(*   frConfig      Freezer.config                                          *)
(*   frRes         the last call, its head and the error it returned       *)
(* The main database holds every canonical block up to MaxHead.            *)
(***************************************************************************)
\* The loop of FreezeBlocks from start on.  Each freezeBatch(start, end)
\* is one ModifyAncients that appends the blocks start..end (Ancients()
\* becomes end + 1 when end is not below it); budget is the number of
\* batches that succeed before a freezeBatch returns an error.
RECURSIVE FreezeLoop(_, _, _, _, _, _, _)
FreezeLoop(start, freezeTarget, size, items, anc, last, budget) ==
    IF start > freezeTarget
    THEN [items |-> items, ancients |-> anc, lastFrozen |-> last, err |-> "nil"]
    ELSE LET e0 == start + size - 1
             end == IF e0 > freezeTarget THEN freezeTarget ELSE e0 IN
         IF budget = 0
         THEN [items |-> items, ancients |-> anc, lastFrozen |-> last,
               err |-> "failed to freeze batch"]
         ELSE FreezeLoop(end + 1, freezeTarget, size,
                         items \cup (start..end),
                         IF end >= anc THEN end + 1 ELSE anc,
                         end, budget - 1)

\* NewFreezer on an ancient path that holds the blocks 0..n-1.
NewFreezer(n, threshold, size) ==
    /\ frRes = NoCall
    /\ frItems' = 0..(n - 1)
    /\ frAncients' = n
    /\ frLastFrozen' = IF n > 0 THEN n - 1 ELSE 0
    /\ frConfig' = [FreezeThreshold |-> threshold, BatchSize |-> size]
    /\ frRes' = [op |-> "NewFreezer", head |-> 0, err |-> "nil"]
    /\ UNCHANGED otherThanFreezer

\* Freezer.FreezeBlocks(head)
FreezeBlocks(head, budget) ==
    LET freezeTarget == head - frConfig.FreezeThreshold
        r == FreezeLoop(frLastFrozen + 1, freezeTarget, frConfig.BatchSize,
                        frItems, frAncients, frLastFrozen, budget) IN
    /\ frRes # NoCall
    /\ IF head <= frConfig.FreezeThreshold \/ freezeTarget <= frLastFrozen
       THEN /\ budget = MaxHead
            /\ frRes' = [op |-> "FreezeBlocks", head |-> head, err |-> "nil"]
            /\ UNCHANGED <<frItems, frAncients, frLastFrozen>>
       ELSE /\ budget = MaxHead \/ r.err # "nil"
            /\ frItems' = r.items
            /\ frAncients' = r.ancients
            /\ frLastFrozen' = r.lastFrozen
            /\ frRes' = [op |-> "FreezeBlocks", head |-> head, err |-> r.err]
    /\ UNCHANGED frConfig
    /\ UNCHANGED otherThanFreezer

FreezerNext ==
    \/ \E n \in 0..MaxFrozenBefore, threshold \in 0..MaxThreshold,
          size \in 1..MaxFreezeBatch : NewFreezer(n, threshold, size)
    \/ \E head \in 0..MaxHead, budget \in 0..MaxHead : FreezeBlocks(head, budget)

(***************************************************************************)
(* dualdb.DualDatabase.                                                    *)
(*   ddCurrent    the blocks whose header and body the current database    *)
(*                holds                                                    *)
(*   ddArchive    the blocks the archive database holds                    *)
(*   ddCanonical  the canonical hash the current database holds for each   *)
(*                number, NoHash when it holds none                        *)
(*   ddHead       the head block hash in the current database, NoHash      *)
(*                when there is none                                       *)
(*   ddFinalized  DualDatabase.finalizedHeight                             *)
(*   ddDelay      config.FinalityDelay                                     *)
(*   ddRes        the last call and its result                             *)
(* A block is the pair of its fork and its number and stands for its own   *)
(* hash: two blocks with the same hash have the same number.               *)
(***************************************************************************)
Forks == {"A", "B"}
Blocks == Forks \X (0..MaxBlockNumber)
NoHash == <<>>

\* rawdb.ReadBlock(db, hash, number) finds a block: its header and body
\* are stored under (number, hash).
HasBlock(db, b) == b \in db

\* ReadBlock: the database the read of block number n is routed to.
RoutedTo(n, finalizedHeight, archiveDB, currentDB) ==
    IF n <= finalizedHeight THEN archiveDB ELSE currentDB

\* The blocks archiveFinalized puts in its batch for the numbers from..to:
\* the canonical block of each number, when the current database has it.
ArchiveBatch(from, to) ==
    {b \in Blocks : /\ from <= b[2] /\ b[2] <= to
                    /\ ddCanonical[b[2]] = b
                    /\ HasBlock(ddCurrent, b)}

\* NewDualDatabase over two empty databases.
NewDualDatabase(delay) ==
    /\ ddRes = NoCall
    /\ ddCanonical' = [n \in 0..MaxBlockNumber |-> NoHash]
    /\ ddDelay' = delay
    /\ ddRes' = [op |-> "NewDualDatabase"]
    /\ UNCHANGED <<ddCurrent, ddArchive, ddHead, ddFinalized>>
    /\ UNCHANGED otherThanDualdb

\* DualDatabase.WriteBlock(block)
WriteBlock(b) ==
    /\ ddRes # NoCall
    /\ ddCurrent' = ddCurrent \cup {b}
    /\ ddRes' = [op |-> "WriteBlock", block |-> b]
    /\ UNCHANGED <<ddArchive, ddCanonical, ddHead, ddFinalized, ddDelay>>
    /\ UNCHANGED otherThanDualdb

\* DualDatabase.Put of the canonical hash of b's number and of the head
\* block hash (rawdb.WriteCanonicalHash, rawdb.WriteHeadBlockHash).
SetHead(b) ==
    /\ ddRes # NoCall
    /\ ddCanonical' = [ddCanonical EXCEPT ![b[2]] = b]
    /\ ddHead' = b
    /\ ddRes' = [op |-> "Put", block |-> b]
    /\ UNCHANGED <<ddCurrent, ddArchive, ddFinalized, ddDelay>>
    /\ UNCHANGED otherThanDualdb

\* DualDatabase.ReadBlock(hash, number) for the hash and number of b.
ReadBlock(b) ==
    /\ ddRes # NoCall
    /\ ddRes' = [op |-> "ReadBlock", block |-> b,
                 found |-> HasBlock(RoutedTo(b[2], ddFinalized, ddArchive, ddCurrent), b)]
    /\ UNCHANGED <<ddCurrent, ddArchive, ddCanonical, ddHead, ddFinalized, ddDelay>>
    /\ UNCHANGED otherThanDualdb

\* DualDatabase.archiveFinalized(); writeOk: batch.Write() on the archive
\* database returns nil.
ArchiveFinalized(writeOk) ==
    LET known == ddHead # NoHash /\ HasBlock(ddCurrent, ddHead)
        currentNumber == ddHead[2]
        newFinalizedHeight == currentNumber - ddDelay IN
    /\ ddRes # NoCall
    /\ IF ~known \/ currentNumber <= ddDelay \/ newFinalizedHeight <= ddFinalized
       THEN /\ writeOk
            /\ ddRes' = [op |-> "archiveFinalized", err |-> "nil"]
            /\ UNCHANGED <<ddArchive, ddFinalized>>
       ELSE IF writeOk
       THEN /\ ddArchive' = ddArchive \cup ArchiveBatch(ddFinalized + 1, newFinalizedHeight)
            /\ ddFinalized' = newFinalizedHeight
            /\ ddRes' = [op |-> "archiveFinalized", err |-> "nil"]
       ELSE /\ ddRes' = [op |-> "archiveFinalized",
                         err |-> "failed to write archive batch"]
            /\ UNCHANGED <<ddArchive, ddFinalized>>
    /\ UNCHANGED <<ddCurrent, ddCanonical, ddHead, ddDelay>>
    /\ UNCHANGED otherThanDualdb

DualdbNext ==
    \/ \E delay \in 0..MaxDelay : NewDualDatabase(delay)
    \/ \E b \in Blocks : WriteBlock(b)
    \/ \E b \in Blocks : SetHead(b)
    \/ \E b \in Blocks : ReadBlock(b)
    \/ \E writeOk \in BOOLEAN : ArchiveFinalized(writeOk)

(***************************************************************************)
(* Specifications.                                                         *)
(***************************************************************************)
KVInit == KVOpen /\ DualClosed /\ AncientOpen /\ ReplayClosed

SpecKV == KVInit /\ [][KVNext]_vars

KVClosed ==
    /\ kvStore = EmptyStore /\ kvEntries = EmptyStore /\ kvSize = 0
    /\ kvAct = "open" /\ kvErr = "nil"
    /\ kvLast = [k \in KVKeys |-> NeverWritten]
    /\ NoSnapshot
    /\ NoIteration
    /\ NoHandle
    /\ NoGet
    /\ NoBatch
    /\ NoFreezer
    /\ NoDualDatabase

DualInit == DualOpen /\ KVClosed /\ AncientOpen /\ ReplayClosed

SpecDual == DualInit /\ [][DualNext]_vars

TierInit == TierOpen /\ KVClosed /\ AncientOpen /\ ReplayClosed

QuietInit == QuietOpen /\ KVClosed /\ AncientOpen /\ ReplayClosed

SpecQuiet == QuietInit /\ [][QuietNext]_vars

SpecTierWrites == TierInit /\ [][TierWriteNext]_vars

RangeInit == RangeOpen /\ KVClosed /\ DualClosed /\ ReplayClosed

SpecRange == RangeInit /\ [][RangeNext]_vars

AncientInit == AncientOpen /\ KVClosed /\ DualClosed /\ ReplayClosed

SpecAncient == AncientInit /\ [][AncientNext]_vars

SpecAncientFaults == AncientInit /\ [][AncientFaultNext]_vars

ReplayInit == ReplayOpen /\ KVClosed /\ DualClosed /\ AncientOpen

SpecReplay == ReplayInit /\ [][ReplayNext]_vars

SpecTier == TierInit /\ [][TierNext]_vars

\* A store that was populated and closed by its writer.
SharedInit == RangeOpen /\ KVClosed /\ DualClosed /\ ReplayClosed

SpecShared == SharedInit /\ [][SharedNext]_vars

LifeInit == DualClosed /\ KVClosed /\ AncientOpen /\ ReplayClosed

SpecLife == LifeInit /\ [][LifeNext]_vars

\* The ticker of archiveLoop fires every archiveInterval: a loop that stays
\* in its select takes the ticker case.
SpecLifeFair ==
    LifeInit /\ [][LifeNext]_vars /\ \A l \in Loops : WF_vars(LoopTick(l))

\* Every component closed or fresh.
IdleInit == KVClosed /\ DualClosed /\ AncientOpen /\ ReplayClosed

SpecSnap == IdleInit /\ [][SnapNext]_vars

SpecIter == IdleInit /\ [][IterNext]_vars

SpecDualIter == IdleInit /\ [][DualIterNext]_vars

SpecClose == IdleInit /\ [][CloseNext]_vars

SpecGet == IdleInit /\ [][GetNext]_vars

SpecOrder == IdleInit /\ [][OrderNext]_vars

SpecFreezer == IdleInit /\ [][FreezerNext]_vars

SpecDualdb == IdleInit /\ [][DualdbNext]_vars

C3_CurrentFirst ==
    LET k == rdRes.key
        inArchive == hasArchive /\ k \in DOMAIN archive
    IN
    /\ rdRes.op = "Get" =>
         /\ k \in DOMAIN current =>
              rdRes.err = "nil" /\ rdRes.value = current[k]
         /\ k \notin DOMAIN current /\ inArchive =>
              rdRes.err = "nil" /\ rdRes.value = archive[k]
         /\ k \notin DOMAIN current /\ ~inArchive =>
              rdRes.err = "ErrKeyNotFound"
    /\ rdRes.op = "Has" =>
         /\ rdRes.err = "nil"
         /\ rdRes.has = (k \in DOMAIN current \/ inArchive)

\* C3 witness: a Get of a key that both tiers hold with different values.
C3_Witness ==
    /\ rdRes.op = "Get"
    /\ hasArchive
    /\ rdRes.key \in DOMAIN current \cap DOMAIN archive
    /\ current[rdRes.key] # archive[rdRes.key]

\* C6: a ModifyAncients that returns an error leaves every stored item,
\* Ancients(), Tail() and AncientSize of every table as they were before the
\* call; one that returns nil leaves the in-memory counters equal to the
\* persisted ones.
C6_ModifyAncientsAllOrNothing ==
    [][ ancAct' = "ModifyAncients" =>
          /\ ancErr' # "nil" =>
               /\ storedItems' = storedItems
               /\ ancients' = ancients
               /\ tail' = tail
               /\ tableSize' = tableSize
          /\ ancErr' = "nil" =>
               /\ ancients' = storedCount'
               /\ tail' = storedTail'
      ]_vars

\* C7: Tail() <= Ancients() in every reachable state of the store.
C7_TailAtMostAncients == tail <= ancients

\* C8: for every table, item i is stored if and only if
\* Tail() <= i < Ancients().
C8_ItemsExactlyInRange ==
    \A t \in Tables, i \in 0..MaxUint64 :
        HasAncient(t, i) <=> (tail <= i /\ i < ancients)

\* C9: a step that increases Ancients() is a ModifyAncients that appended
\* the item below the new Ancients(); a step that decreases it is a
\* TruncateHead; no step decreases Tail(), and a step that changes it is a
\* tail truncation (TruncateTail, or ModifyAncients for the one submitted
\* through its batch).
C9_CountersMoveOneWay ==
    [][ /\ ancients' > ancients =>
             /\ ancAct' = "ModifyAncients"
             /\ \E t \in Tables : <<t, ancients' - 1>> \in DOMAIN storedItems'
        /\ ancients' < ancients => ancAct' = "TruncateHead"
        /\ tail' >= tail
        /\ tail' # tail => ancAct' \in {"TruncateTail", "ModifyAncients"}
      ]_vars

\* C10: when a Replay call over a source that holds a canonical hash for
\* every height 1..N has ended, whether or not an earlier call was
\* interrupted between two batches, it has returned nil, the checkpoint
\* LastReplayedHeight is N and the target holds the canonical hash record of
\* every height 1..N.
C10_ReplayReachesSourceTip ==
    rpPc \in {"returned", "panicked"} /\ sourceTip > 0
                                      /\ sourceHashes = 1..sourceTip =>
        /\ rpPc = "returned"
        /\ rpErr = "nil"
        /\ Checkpoint(target) = sourceTip
        /\ \A h \in 1..sourceTip : CanonicalKey(h) \in DOMAIN target

\* The highest height that has a canonical hash record in a store, 0 when
\* there is none.
DestinationTip(db) ==
    LET held == {h \in 1..(MaxTip + 1) : CanonicalKey(h) \in DOMAIN db} IN
    IF held = {} THEN 0 ELSE CHOOSE h \in held : \A g \in held : g <= h

\* C11: a Replay call that finds the checkpoint c in the target starts its
\* batch loop at height c + 1 (1 when there is no checkpoint), and no batch
\* is started at a height that the persisted checkpoint already covers.
C11_StartsAfterCheckpoint ==
    [][/\ (rpRuns' = rpRuns + 1 /\ rpPc' = "batches") =>
              rpHeight' = Checkpoint(target) + 1
       /\ (rpPc' = "batches" /\ rpHeight' <= sourceTip) =>
              rpHeight' > Checkpoint(target')]_vars

C14_MovesFinalizedHeights ==
    LET h == GetCurrentHeight(current, archive, hasArchive).height IN
    (arErr # NotCalled /\ arPc = "idle" /\ hasArchive /\ h > finalityDelay) =>
        \A x \in 0..MaxHeight :
            BlockKey(x) \in DOMAIN current \cup DOMAIN archive =>
                IF x < h - finalityDelay
                THEN /\ BadgerGet(archive, BlockKey(x)) =
                           [value |-> BlockData(x), err |-> "nil"]
                     /\ ~BadgerHas(current, BlockKey(x)).has
                ELSE /\ BadgerGet(current, BlockKey(x)) =
                           [value |-> BlockData(x), err |-> "nil"]
                     /\ ~BadgerHas(archive, BlockKey(x)).has

\* C15: Put, Delete, DeleteRange and the Write of a batch issued through a
\* DualBadgerDatabase leave the keys and values held by the archive store
\* as they were.
C15_WritesLeaveArchive ==
    [][archive' = archive]_vars

\* A key that the archive holds has been deleted through the dual database
\* and another key that the archive holds has been put with another value.
C15_Witness ==
    /\ hasArchive
    /\ \E k \in DOMAIN archive : dualLast[k][1] \in {"del", "range", "batchdel"}
    /\ \E k \in DOMAIN archive :
          dualLast[k][1] = "put" /\ dualLast[k][2] # archive[k]

\* C16: after a Delete(k) through a DualBadgerDatabase has returned no
\* error, and until k is written again, Has(k) is false and Get(k) is
\* NotFound, whichever tier held k.
C16_DeletedKeyIsGone ==
    \A k \in DualKeys :
        dualLast[k] = <<"del">> =>
            /\ ~DualHas(current, archive, hasArchive, k).has
            /\ DualGet(current, archive, hasArchive, k).err = "ErrKeyNotFound"

\* The calls of an fn that does nothing but AppendRaw.
AppendCalls ==
    {c \in AncientCalls : c # <<>> /\ \A i \in 1..Len(c) : c[i].op = "AppendRaw"}

\* The largest number that calls appends.
LargestAppended(calls) ==
    CHOOSE n \in {calls[i].number : i \in 1..Len(calls)} :
        \A i \in 1..Len(calls) : calls[i].number <= n

\* C17: after a ModifyAncients that returned nil and whose fn called
\* AppendRaw with at least one number at or above the previous Ancients(),
\* Ancients() is 1 + the largest number appended, whatever the order of
\* the AppendRaw calls.
C17_AncientsIsLargestPlusOne ==
    [][\A calls \in AppendCalls :
          (ModifyAncients(calls, FALSE, 0) /\ LargestAppended(calls) >= ancients) =>
              ancients' = LargestAppended(calls) + 1]_vars

\* The number of bytes of the first n items from start on in a table.
RECURSIVE BytesOf(_, _, _, _)
BytesOf(items, kind, start, n) ==
    IF n = 0 THEN 0
    ELSE Len(items[<<kind, Add64(start, n - 1)>>]) + BytesOf(items, kind, start, n - 1)

\* n items from start on can be returned: they are at most count, each of
\* them exists and together they are within maxBytes (0: no limit).
CanReturn(items, kind, start, count, maxBytes, n) ==
    /\ n <= count
    /\ \A j \in 0..(n - 1) : <<kind, Add64(start, j)>> \in DOMAIN items
    /\ maxBytes = 0 \/ BytesOf(items, kind, start, n) <= maxBytes

\* C18: AncientRange returns the items start, start+1, ... in index order,
\* as many as fit count, the existing items and maxBytes (0: no limit),
\* except that the item at start is returned when it exists and count >= 1
\* even if it alone is larger than maxBytes.
C18_RangeStopsAtLimits ==
    rangeRes.op = "AncientRange" =>
        LET kind == rangeRes.kind
            start == rangeRes.start
            count == rangeRes.count
            maxBytes == rangeRes.maxBytes
            fit == CHOOSE n \in 0..count :
                      /\ CanReturn(storedItems, kind, start, count, maxBytes, n)
                      /\ \A m \in 0..count :
                            CanReturn(storedItems, kind, start, count, maxBytes, m)
                               => m <= n
            len == IF fit = 0 /\ count >= 1 /\ <<kind, start>> \in DOMAIN storedItems
                   THEN 1 ELSE fit
        IN /\ rangeRes.err = "nil"
           /\ rangeRes.items = [j \in 1..len |-> storedItems[<<kind, Add64(start, j - 1)>>]]

\* An AncientRange has returned the single item at start although it is
\* larger than maxBytes, and another has stopped at maxBytes after one of
\* two items.
C18_Witness ==
    /\ rangeRes.op = "AncientRange"
    /\ rangeRes.maxBytes > 0
    /\ Len(rangeRes.items) = 1
    /\ Len(rangeRes.items[1]) > rangeRes.maxBytes

\* C19: in every state of the store and for every count >= 1, AncientRange
\* returns at least one item when start < Ancients() and no item when
\* start >= Ancients().
C19_RangeNonEmptyBelowAncients ==
    \A kind \in Tables, start \in 0..MaxUint64, count \in 1..MaxCount,
       maxBytes \in 0..MaxRangeBytes :
        LET r == AncientRange(storedItems, kind, start, count, maxBytes) IN
        /\ start < ancients => Len(r) >= 1
        /\ start >= ancients => r = <<>>

\* C20 (stored items and counters): a TruncateHead(n) with
\* Tail() <= n <= Ancients() that returns nil sets Ancients() to n and
\* leaves exactly the items with an index below n, with their values; a
\* TruncateTail(n) with Tail() + n <= Ancients() that returns nil advances
\* Tail() by n and leaves exactly the items with an index at or above the
\* new tail, with their values.
C20_TruncationRemovesOutOfRange ==
    [][/\ (ancAct' = "TruncateHead" /\ ancErr' = "nil" /\ ancients' <= ancients
              /\ tail <= ancients') =>
              storedItems' = [x \in {y \in DOMAIN storedItems : y[2] < ancients'} |->
                                 storedItems[x]]
       /\ (ancAct' = "TruncateTail" /\ ancErr' = "nil" /\ tail' >= tail) =>
              storedItems' = [x \in {y \in DOMAIN storedItems : y[2] >= tail'} |->
                                 storedItems[x]]]_vars

\* C21: a TruncateTail(n) with Tail() + n > Ancients() returns an error and
\* leaves Tail(), Ancients() and every stored item as they were.
C21_TailBeyondAncientsRejected ==
    [][\A n \in 0..MaxUint64 :
          (TruncateTail(n, "none") /\ tail + n > ancients) =>
              /\ ancErr' # "nil"
              /\ tail' = tail /\ ancients' = ancients
              /\ storedItems' = storedItems]_vars

\* C22 (stored items and counters): TruncateHead(n) with n = Ancients() and
\* TruncateTail(n) with n = Tail() remove no item and leave Ancients() and
\* Tail() as they were.
C22_TruncationAtBoundIsNoOp ==
    [][/\ TruncateHead(ancients, "none") =>
              /\ ancErr' = "nil"
              /\ storedItems' = storedItems /\ ancients' = ancients /\ tail' = tail
       /\ TruncateTail(tail, "none") =>
              /\ ancErr' = "nil"
              /\ storedItems' = storedItems /\ ancients' = ancients /\ tail' = tail]_vars

\* C23: when the highest canonical hash record of the target is already
\* at or above the source tip, a Replay call goes straight to the tip
\* verification and no step changes the target, its checkpoint included.
C23_CompleteTargetUntouched ==
    [][(sourceTip > 0 /\ DestinationTip(target) >= sourceTip) =>
          /\ target' = target
          /\ rpRuns' = rpRuns + 1 => rpPc' = "verify"]_vars

C25_CheckpointMonotone ==
    [][/\ Checkpoint(target') >= Checkpoint(target)
       /\ \A h \in 1..MaxTip :
             (CanonicalKey(h) \in DOMAIN target' \ DOMAIN target) =>
                 Checkpoint(target') >= h]_vars

\* C26: no Replay call panics.
C26_ReplayNeverPanics ==
    rpPc # "panicked"

\* C27: Start and Stop called any number of times in any order never
\* panic, and at most one archiveLoop goroutine exists at any time.
C27_OneLoopNoPanic ==
    /\ Running
    /\ Cardinality(LiveLoops) <= 1

\* C28: a Stop call returns only when no archiveLoop goroutine exists any
\* more; in particular no cycle is running and no chunk is written to
\* archive with its deletes not yet attempted.
C28_StopReturnsAfterLoopExit ==
    [][\A c \in Stoppers :
          (stopPc[c] # "returned" /\ stopPc'[c] = "returned") =>
              LiveLoops = {}]_vars

\* C29: an archiveFinalized that returns an error leaves its loop in the
\* select with no panic, and a loop whose last cycle failed runs
\* archiveFinalized again unless Stop has closed stopCh.
C29_FailedCycleKeepsLoop ==
    /\ [][\A l \in Loops :
             (loopPc[l] = "scan" /\ loopErr'[l] = "error"
                                 /\ loopPc'[l] # loopPc[l]
                                 /\ loopPc'[l] # "written") =>
                 (loopPc'[l] = "wait" /\ Running')]_vars
    /\ \A l \in Loops :
          [](((loopPc[l] = "wait" /\ loopErr[l] = "error")) =>
                <>(loopPc[l] = "scan" \/ stopCh = "closed"))

\* A loop whose last archiveFinalized failed is in archiveFinalized again,
\* Stop not yet called.
C29_Witness ==
    \E l \in Loops :
        /\ loopPc[l] = "scan" /\ loopErr[l] = "error"
        /\ stopCh = "open" /\ \A c \in Stoppers : stopPc[c] = "idle"

\* C30 (ancient store): no call through a read-only handle changes the
\* stored items or the stored counters, no such call changes the
\* Ancients() or Tail() the handle reports, and all open handles report the
\* same Ancients() and Tail().
C30_ReadOnlyHandlesChangeNothing ==
    [][/\ storedItems' = storedItems
       /\ storedCount' = storedCount /\ storedTail' = storedTail
       /\ \A h \in Handles :
             (roOpen[h] /\ roOpen'[h]) =>
                 (roAncients'[h] = roAncients[h] /\ roTail'[h] = roTail[h])
       /\ \A g, h \in Handles :
             (roOpen'[g] /\ roOpen'[h]) =>
                 (roAncients'[g] = roAncients'[h] /\ roTail'[g] = roTail'[h])]_vars

\* C31: closing the ancient store and opening it again on the same path
\* yields the same Ancients(), the same Tail() and the same
\* AncientSize(table) for every table.
C31_ReopenKeepsCounters ==
    [][AncientReopen =>
          /\ ancients' = ancients /\ tail' = tail
          /\ tableSize' = tableSize]_vars

\* C32: Has and Get of a snapshot answer from the contents the database
\* had when NewSnapshot was called, whatever was put or deleted since; a
\* Release, the first or a later one, returns without a panic and leaves
\* the snapshot without transaction.
C32_SnapshotIsolated ==
    /\ snRes.op = "Get" => snRes.res = BadgerGet(snAtCreate, snRes.key)
    /\ snRes.op = "Has" => snRes.res = BadgerHas(snAtCreate, snRes.key)
    /\ snRes.op = "Release" => (snReleases > 0 /\ snTxn = NoTxn)
    /\ snRes.op = "panic" => snReleases > 0

\* A Get of the snapshot has answered for a key whose value was changed in
\* the database after the snapshot was taken.
C32_Witness ==
    /\ snRes.op = "Get"
    /\ BadgerGet(snVersions[Len(snVersions)], snRes.key) # snRes.res

\* C33: an iterator made by NewIterator(prefix, start) yields, in ascending
\* byte order and each once, exactly the stored keys that carry the prefix
\* and are not smaller than start when start is given, else than prefix.
C33_IteratorYieldsMatches ==
    itRes.op # "none" =>
        itRes.keys =
            SortedKeys({k \in DOMAIN itRes.db :
                          /\ IsPrefix(itRes.prefix, k)
                          /\ ~BytesLess(k, IF itRes.start # Nil THEN itRes.start
                                           ELSE itRes.prefix)})

\* The entries of db, in ascending key order, that carry the prefix and are
\* not below the position the store's own iterator seeks to.
MatchesOf(db, prefix, start) ==
    LET keys == SortedKeys({k \in DOMAIN db :
                              /\ IsPrefix(prefix, k)
                              /\ ~BytesLess(k, SeekKey(prefix, start))}) IN
    [i \in 1..Len(keys) |-> <<keys[i], db[keys[i]]>>]

\* C34: with an archive, the dual iterator yields every matching entry of
\* archive, then every matching entry of current, and nothing else.
C34_ArchiveThenCurrent ==
    (itRes.op = "DualBadgerDatabase" /\ itRes.hasArchive) =>
        LET a == MatchesOf(itRes.archive, itRes.prefix, itRes.start)
            c == MatchesOf(itRes.current, itRes.prefix, itRes.start) IN
        /\ itRes.entries = a \o c
        /\ Len(itRes.entries) = Len(a) + Len(c)

\* A dual iterator has yielded two archive entries and then a current
\* entry whose key is below the key of the last archive entry.
C34_Witness ==
    /\ itRes.op = "DualBadgerDatabase" /\ itRes.hasArchive
    /\ Len(itRes.entries) >= 3
    /\ itRes.entries[2][2] = <<1>> /\ itRes.entries[3][2] = <<2, 2>>
    /\ BytesLess(itRes.entries[3][1], itRes.entries[2][1])

\* C35: a Put or Get made on a handle after its Close has returned returns
\* an error, and no call made after Close changes the stored contents.
C35_ClosedHandleFails ==
    [][/\ (clRes'.op \in {"Put", "Get"} /\ clRes'.closed) => clRes'.err # "nil"
       /\ clClosed => (clCurrent' = clCurrent /\ clArchive' = clArchive)]_vars

\* A Get of a stored key has been made on a closed handle.
C35_Witness ==
    /\ clRes.op = "Get" /\ clRes.closed
    /\ clCurrent # EmptyStore \/ clArchive # EmptyStore

\* C36: a Get of a key the store does not hold returns the NotFound error
\* of the store, in every implementation.
C36_AbsentKeyIsNotFound ==
    (gtRes.op # "none" /\ gtRes.key \notin DOMAIN gtRes.db) =>
        gtRes.err = "ErrKeyNotFound"

\* The store after the operations ops were applied to it one by one.
RECURSIVE AppliedInOrder(_, _)
AppliedInOrder(db, ops) ==
    IF ops = <<>> THEN db
    ELSE LET o == Head(ops)
             next == IF o.op = "Put" THEN StoreSet(db, o.key, o.value)
                     ELSE IF o.op = "Delete" THEN StoreDel(db, o.key)
                     ELSE BadgerDeleteRange(db, FALSE, o.start, o.end,
                                            DOMAIN db, TRUE).db
         IN AppliedInOrder(next, Tail(ops))

\* C37 (Write): a Write of a badgerBatch that returns nil leaves the store
\* as applying the batch's Put, Delete and DeleteRange calls one by one in
\* the order they were made leaves it.
C37_WriteAppliesInOrder ==
    [][\A ok \in BOOLEAN :
          (OrderWrite(ok) /\ obRes'.err = "nil") =>
              obStore' = AppliedInOrder(obStore, obIssued)]_vars

\* C38 (batch truncation): a TruncateAncients(n) or TruncateTail(n) made by
\* fn on the write handle has, when ModifyAncients returns nil, the effect of
\* the store's TruncateHead(n) or TruncateTail(n): the same items are gone
\* and Ancients() or Tail() has the same new value, also when that is 0.
C38_BatchTruncateAsStore ==
    [][\A n \in 0..MaxUint64 :
          /\ (ModifyAncients(<<[op |-> "TruncateAncients", n |-> n]>>, FALSE, 0)
                /\ n < ancients)
               => /\ ancients' = n
                  /\ storedItems' = DeleteItems(storedItems, n, ancients)
          /\ (ModifyAncients(<<[op |-> "TruncateTail", n |-> n]>>, FALSE, 0)
                /\ Add64(tail, n) <= ancients)
               => /\ tail' = Add64(tail, n)
                  /\ storedItems' = DeleteItems(storedItems, tail, Add64(tail, n))]_vars

\* C39 (FreezeBlocks): a FreezeBlocks(head) with head > FreezeThreshold that
\* returns nil has appended exactly the blocks from the store's Ancients()
\* up to head - FreezeThreshold, so the frozen numbers stay 0..Ancients()-1
\* (block 0 first on an empty store), and lastFrozen + 1 = Ancients().
C39_FreezesFromAncients ==
    [][\A head \in 0..MaxHead, budget \in 0..MaxHead :
          (/\ FreezeBlocks(head, budget)
           /\ head > frConfig.FreezeThreshold
           /\ frRes'.err = "nil")
          => /\ frItems' = frItems \cup (frAncients..(head - frConfig.FreezeThreshold))
             /\ frItems' = 0..(frAncients' - 1)
             /\ frLastFrozen' + 1 = frAncients']_vars

\* C40 (ReadBlock after WriteBlock): ReadBlock(hash, number) returns every
\* block that WriteBlock has written, whatever its number and however many
\* archiveFinalized cycles have run.
C40_WrittenBlockIsRead ==
    [][\A b \in Blocks :
          (ReadBlock(b) /\ b \in ddCurrent) => ddRes'.found]_vars

\* C4: after any sequence of Put and Delete calls, Get(k) returns the value
\* of the last Put(k) when the last operation on k was a Put, and Has(k) is
\* false and Get(k) is NotFound when k was never put or was deleted last.
C4_LastWriteWins ==
    \A k \in KVKeys :
        /\ kvLast[k][1] = "put" =>
              /\ BadgerGet(kvStore, k) = [value |-> kvLast[k][2], err |-> "nil"]
              /\ BadgerHas(kvStore, k).has
        /\ kvLast[k][1] \in {"none", "del"} =>
              /\ ~BadgerHas(kvStore, k).has
              /\ BadgerGet(kvStore, k).err = "ErrKeyNotFound"

\* A Delete has just removed a key that had been put, while the other key
\* still holds the value of its last Put.
C4_Witness ==
    /\ kvAct = "Delete" /\ kvErr = "nil"
    /\ \E k \in KVKeys : kvLast[k] = <<"del">> /\ ~BadgerHas(kvStore, k).has
    /\ \E k \in KVKeys : kvLast[k][1] = "put" /\ BadgerGet(kvStore, k).value = kvLast[k][2]

\* What Get and Has answer for every key once the writes ents are visible
\* on top of store s.
VisibleAfter(s, s2, ents) ==
    \A k \in KVKeys :
        IF k \in DOMAIN ents
        THEN IF ents[k].delete
             THEN ~BadgerHas(s2, k).has
             ELSE BadgerGet(s2, k) = [value |-> ents[k].value, err |-> "nil"]
        ELSE BadgerGet(s2, k) = BadgerGet(s, k)

\* C5: operations buffered in a batch are invisible to Get/Has until
\* Write(); a successful Write() makes all of them visible together and a
\* failed Write() leaves the store exactly as it was.
C5_BatchAtomic ==
    [][/\ kvAct' \in {"BatchPut", "BatchDelete", "Reset"} => kvStore' = kvStore
       /\ (kvAct' = "Write" /\ kvErr' = "nil") =>
              VisibleAfter(kvStore, kvStore', kvEntries)
       /\ (kvAct' = "Write" /\ kvErr' # "nil") => kvStore' = kvStore]_vars

\* A Write() of a batch holding a Put and a Delete has just failed on a
\* store that holds the key the batch deletes.
C5_WitnessFailed ==
    /\ kvAct = "Write" /\ kvErr # "nil"
    /\ \E k \in DOMAIN kvEntries : kvEntries[k].delete /\ k \in DOMAIN kvStore
    /\ \E k \in DOMAIN kvEntries : ~kvEntries[k].delete /\ k \notin DOMAIN kvStore

====
